---- MODULE Spec2Model ----
(***************************************************************************)
(* Pro-Driver-Assist: keyboard-to-axis shaping (keyboard_processor.py),    *)
(* device arbitration (input_device_manager.py) and the input loop         *)
(* (input_manager.py).                                                     *)
(*                                                                         *)
(* Numbers.  The program computes in floats; the model computes in fixed   *)
(* point with One = 1.0, products truncated toward zero.  Time is counted  *)
(* in units of 0.1 s (the arbitration poll interval), so delta_time * 60.0 *)
(* is FramesPerUnit * dt and exp(-hold_time * 2.0) is ExpStep ^ hold.      *)
(***************************************************************************)
EXTENDS Integers, Sequences, FiniteSets, TLC

\* ------------------------------------------------------------------ bounds
\* time.time() at construction (any value past the detection threshold).
StartTime == 6
\* The clock is explored up to StartTime + MaxTime.
MaxTime == 10
\* KeyboardProcessor objects constructed (the first and the reconfigured).
MaxProcs == 2
\* Callbacks registered with the device manager.
MaxListeners == 2
\* Key events explored by the key-hold tracker's specification.
MaxEvents == 3
\* Key events and ticks explored by the shaping specification.
MaxHeld == 2
MaxTicks == 2
\* repeated _smooth_value steps of one run
MaxSmoothTicks == 8
\* the longest a key is held, in time units
MaxHold == 60
\* run_on_main calls of one thread
MaxCalls == 1

\* ------------------------------------------------------ program constants
\* 1.0 in fixed point.
One == 10000
\* abs(target - current) < 0.001
Epsilon == 10
\* delta_time * 60.0, for a delta_time of one time unit (0.1 s)
FramesPerUnit == 6
\* exp(-hold_time * 2.0) for a hold_time of one time unit: exp(-0.2)
ExpStep == 8187
\* self.steering_smoothing = 0.8, self.pedal_smoothing = 0.7
SteeringSmoothing == 8000
PedalSmoothing == 7000
\* steering.get('center_speed', 0.3)
DefaultCenterSpeed == 3000
\* abs(self.steering_value) > 0.8 and self.throttle_value > 0.7
CounterSteerSteeringMin == 8000
CounterSteerThrottleMin == 7000
\* abs(self.steering_value) > 0.6 and self.throttle_value > 0.8
AntiSpinSteeringMin == 6000
AntiSpinThrottleMin == 8000
\* .get('counter_steer_strength', 0.5), .get('spin_prevention', 0.6)
DefaultCounterSteerStrength == 5000
DefaultSpinPrevention == 6000

\* self.detection_threshold = 0.5 (seconds), in time units
DetectionThreshold == 5
\* time.sleep(0.1) in the detection loop, in time units
PollInterval == 1
\* time.sleep(1) after an error in the detection loop, in time units
ErrorBackoff == 10

\* --------------------------------------------------------- fixed point
Abs(x) == IF x < 0 THEN -x ELSE x

Min(a, b) == IF a <= b THEN a ELSE b

Max(a, b) == IF a >= b THEN a ELSE b

\* a * b for fixed-point a, b, truncated toward zero.
MulFix(a, b) ==
    IF a * b >= 0 THEN (a * b) \div One ELSE -((-(a * b)) \div One)

RECURSIVE PowFix(_, _)
\* math.pow(b, n) for a whole number n of frames.
PowFix(b, n) ==
    IF n <= 0 THEN One
    ELSE IF n % 2 = 0
         THEN LET h == PowFix(b, n \div 2) IN MulFix(h, h)
         ELSE MulFix(b, PowFix(b, n - 1))

\* ------------------------------------------------------------- keys
\* Physical keys: the four default bindings, a rebinding target and a key
\* no control is bound to.
Keys == {"a", "d", "w", "s", "j", "x"}

\* KeyState()
NewKeyState ==
    [pressed |-> FALSE, press_time |-> 0, release_time |-> 0,
     hold_duration |-> 0, value |-> 0]

\* The configuration as KeyboardProcessor reads it, every .get(..) with its
\* default resolved.
DefaultConfig ==
    [left_key |-> "a", right_key |-> "d",
     accelerate_key |-> "w", brake_key |-> "s",
     gradual_turn |-> TRUE, return_to_center |-> TRUE,
     center_speed |-> DefaultCenterSpeed,
     progressive_acceleration |-> TRUE,
     counter_steer_assist |-> TRUE, anti_spin_assist |-> TRUE,
     counter_steer_strength |-> DefaultCounterSteerStrength,
     spin_prevention |-> DefaultSpinPrevention]

\* KeyboardProcessor._init_key_states: one KeyState per bound key.
init_key_states(config) ==
    [k \in {config.left_key, config.right_key,
            config.accelerate_key, config.brake_key} |-> NewKeyState]

\* KeyboardProcessor.__init__
NewProcessor(config) ==
    [config |-> config,
     key_states |-> init_key_states(config),
     steering_value |-> 0, throttle_value |-> 0, brake_value |-> 0,
     steering_smoothing |-> SteeringSmoothing,
     pedal_smoothing |-> PedalSmoothing]

\* _key_pressed without its "if not state.pressed" guard.
key_pressed_unguarded(p, key, t) ==
    IF key \in DOMAIN p.key_states
    THEN [p EXCEPT !.key_states[key] =
             [@ EXCEPT !.pressed = TRUE, !.press_time = t,
                       !.hold_duration = 0]]
    ELSE p

\* _key_pressed with self.key_states.setdefault(key, KeyState()) in place
\* of the "if key in self.key_states" test.
key_pressed_setdefault(p, key, t) ==
    LET states == [k \in DOMAIN p.key_states \cup {key} |->
                      IF k \in DOMAIN p.key_states THEN p.key_states[k]
                      ELSE NewKeyState]
    IN  IF ~states[key].pressed
        THEN [p EXCEPT !.key_states =
                 [states EXCEPT ![key] =
                     [@ EXCEPT !.pressed = TRUE, !.press_time = t,
                               !.hold_duration = 0]]]
        ELSE p

\* KeyboardProcessor._key_pressed (the body under the lock), at time t.
key_pressed(p, key, t) ==
    IF key \in DOMAIN p.key_states /\ ~p.key_states[key].pressed
    THEN [p EXCEPT !.key_states[key] =
             [@ EXCEPT !.pressed = TRUE, !.press_time = t,
                       !.hold_duration = 0]]
    ELSE p

\* _key_released with the operands of the subtraction exchanged.
key_released_swapped(p, key, t) ==
    IF key \in DOMAIN p.key_states
    THEN LET state == p.key_states[key]
         IN  [p EXCEPT !.key_states[key] =
                 [state EXCEPT !.pressed = FALSE, !.release_time = t,
                               !.hold_duration = state.press_time - t]]
    ELSE p

\* KeyboardProcessor._key_released (the body under the lock), at time t.
key_released(p, key, t) ==
    IF key \in DOMAIN p.key_states
    THEN LET state == p.key_states[key]
         IN  [p EXCEPT !.key_states[key] =
                 [state EXCEPT !.pressed = FALSE, !.release_time = t,
                               !.hold_duration = t - state.press_time]]
    ELSE p

\* _calculate_key_value with the "1.0 -" of the curve left out.
calculate_key_value_decay(p, key, t) ==
    IF key \notin DOMAIN p.key_states \/ ~p.key_states[key].pressed
    THEN 0
    ELSE LET hold_time == t - p.key_states[key].press_time
             curve == PowFix(ExpStep, hold_time)
         IN  Min(One, curve)

\* KeyboardProcessor._calculate_key_value at time t.
calculate_key_value(p, key, t) ==
    IF key \notin DOMAIN p.key_states \/ ~p.key_states[key].pressed
    THEN 0
    ELSE LET hold_time == t - p.key_states[key].press_time
             curve == One - PowFix(ExpStep, hold_time)
         IN  Min(One, curve)

\* _smooth_value with the sign of the decay term slipped: rate = 1 + pow(..).
smooth_value_overshoot(current, target, smoothing, delta_time) ==
    IF Abs(target - current) < Epsilon
    THEN target
    ELSE LET rate == One + PowFix(smoothing, delta_time * FramesPerUnit)
         IN  current + MulFix(target - current, rate)

\* _smooth_value with a per-frame linear rate in place of the decay term:
\* rate = (1.0 - smoothing) * delta_time * 60.0
smooth_value_linear(current, target, smoothing, delta_time) ==
    IF Abs(target - current) < Epsilon
    THEN target
    ELSE LET rate == (One - smoothing) * delta_time * FramesPerUnit
         IN  current + MulFix(target - current, rate)

\* _smooth_value without its "abs(target - current) < 0.001" snap.
smooth_value_asymptotic(current, target, smoothing, delta_time) ==
    LET rate == One - PowFix(smoothing, delta_time * FramesPerUnit)
    IN  current + MulFix(target - current, rate)

\* KeyboardProcessor._smooth_value
smooth_value(current, target, smoothing, delta_time) ==
    IF Abs(target - current) < Epsilon
    THEN target
    ELSE LET rate == One - PowFix(smoothing, delta_time * FramesPerUnit)
         IN  current + MulFix(target - current, rate)

\* _update_steering without its "Apply return to center" step.
update_steering_uncentered(p, delta_time, t) ==
    LET left_value == calculate_key_value(p, p.config.left_key, t)
        right_value == calculate_key_value(p, p.config.right_key, t)
        target_steering == right_value - left_value
    IN  [p EXCEPT !.steering_value =
            IF p.config.gradual_turn
            THEN smooth_value(p.steering_value, target_steering,
                              p.steering_smoothing, delta_time)
            ELSE target_steering]

\* KeyboardProcessor._update_steering
update_steering(p, delta_time, t) ==
    LET left_value == calculate_key_value(p, p.config.left_key, t)
        right_value == calculate_key_value(p, p.config.right_key, t)
        target_steering == right_value - left_value
        smoothed ==
            IF p.config.gradual_turn
            THEN smooth_value(p.steering_value, target_steering,
                              p.steering_smoothing, delta_time)
            ELSE target_steering
        centered ==
            IF p.config.return_to_center
               /\ ~(left_value # 0 \/ right_value # 0)
            THEN smooth_value(smoothed, 0, p.config.center_speed, delta_time)
            ELSE smoothed
    IN  [p EXCEPT !.steering_value = centered]

\* _update_pedals with the progressive_acceleration test left out: the
\* pedals are always smoothed.
update_pedals_smoothed(p, delta_time, t) ==
    LET target_throttle == calculate_key_value(p, p.config.accelerate_key, t)
        target_brake == calculate_key_value(p, p.config.brake_key, t)
    IN  [p EXCEPT
           !.throttle_value = smooth_value(p.throttle_value,
               target_throttle, p.pedal_smoothing, delta_time),
           !.brake_value = smooth_value(p.brake_value,
               target_brake, p.pedal_smoothing, delta_time)]

\* KeyboardProcessor._update_pedals
update_pedals(p, delta_time, t) ==
    LET target_throttle == calculate_key_value(p, p.config.accelerate_key, t)
        target_brake == calculate_key_value(p, p.config.brake_key, t)
    IN  IF p.config.progressive_acceleration
        THEN [p EXCEPT
                !.throttle_value = smooth_value(p.throttle_value,
                    target_throttle, p.pedal_smoothing, delta_time),
                !.brake_value = smooth_value(p.brake_value,
                    target_brake, p.pedal_smoothing, delta_time)]
        ELSE [p EXCEPT !.throttle_value = target_throttle,
                       !.brake_value = target_brake]

\* _apply_counter_steer with anti-spin's throttle threshold pasted in.
apply_counter_steer_pasted(p) ==
    IF Abs(p.steering_value) > CounterSteerSteeringMin
       /\ p.throttle_value > AntiSpinThrottleMin
    THEN [p EXCEPT !.steering_value =
             MulFix(@, One - p.config.counter_steer_strength)]
    ELSE p

\* KeyboardProcessor._apply_counter_steer
apply_counter_steer(p) ==
    IF Abs(p.steering_value) > CounterSteerSteeringMin
       /\ p.throttle_value > CounterSteerThrottleMin
    THEN [p EXCEPT !.steering_value =
             MulFix(@, One - p.config.counter_steer_strength)]
    ELSE p

\* _apply_anti_spin with the abs() of its steering test left out.
apply_anti_spin_signed(p) ==
    IF p.steering_value > AntiSpinSteeringMin
       /\ p.throttle_value > AntiSpinThrottleMin
    THEN [p EXCEPT !.throttle_value =
             MulFix(@, One - p.config.spin_prevention)]
    ELSE p

\* KeyboardProcessor._apply_anti_spin
apply_anti_spin(p) ==
    IF Abs(p.steering_value) > AntiSpinSteeringMin
       /\ p.throttle_value > AntiSpinThrottleMin
    THEN [p EXCEPT !.throttle_value =
             MulFix(@, One - p.config.spin_prevention)]
    ELSE p

\* _apply_assists with the tests of the two flags left out.
apply_assists_unconditional(p) == apply_anti_spin(apply_counter_steer(p))

\* KeyboardProcessor._apply_assists
apply_assists(p) ==
    LET q == IF p.config.counter_steer_assist
             THEN apply_counter_steer(p) ELSE p
    IN  IF q.config.anti_spin_assist THEN apply_anti_spin(q) ELSE q

\* KeyboardProcessor.update (the body under the lock), at time t.
update(p, delta_time, t) ==
    apply_assists(update_pedals(update_steering(p, delta_time, t),
                                delta_time, t))

\* KeyboardProcessor.get_inputs
get_inputs(p) ==
    [steering |-> p.steering_value, throttle |-> p.throttle_value,
     brake |-> p.brake_value]

\* ------------------------------------------------- InputDeviceManager
\* class InputDevice(Enum)
KEYBOARD == "keyboard"
STEERING_WHEEL == "steering_wheel"
UNKNOWN == "unknown"
InputDevice == {KEYBOARD, STEERING_WHEEL, UNKNOWN}

\* The keys the detection loop polls with keyboard.is_pressed.
DetectionKeys == {"w", "a", "s", "d", "space"}

\* Callbacks that may be registered; the second raises when called.
Listeners == {"on_device_changed", "faulty"}
RaisingListeners == {"faulty"}

\* _check_wheel_activity with a wheel that reports activity.
check_wheel_activity_detects == TRUE

\* InputDeviceManager._check_wheel_activity
check_wheel_activity == FALSE

\* The activity test with <= for <.
is_active_inclusive(current_time, last_time) ==
    (current_time - last_time) <= DetectionThreshold

\* (current_time - self.last_<device>_time) < self.detection_threshold
is_active(current_time, last_time) ==
    (current_time - last_time) < DetectionThreshold

\* The choice of new_device with KEYBOARD for the initial value in place
\* of UNKNOWN.
determine_device_keyboard_default(keyboard_active, wheel_active) ==
    IF wheel_active /\ ~keyboard_active THEN STEERING_WHEEL ELSE KEYBOARD

\* The choice of new_device in _device_detection_loop.
determine_device(keyboard_active, wheel_active) ==
    IF keyboard_active /\ ~wheel_active THEN KEYBOARD
    ELSE IF wheel_active /\ ~keyboard_active THEN STEERING_WHEEL
    ELSE UNKNOWN

\* The notification made on every sample, changed or not.
device_changed_always(new_device, device) == TRUE

\* if new_device != self.current_device
device_changed(new_device, device) == new_device # device

\* _notify_device_changed without the try around the call: the loop over the
\* callbacks ends at the first one that raises.
notify_device_changed_unguarded(callbacks, device) ==
    LET raising == {i \in 1..Len(callbacks) : callbacks[i] \in RaisingListeners}
        n == IF raising = {} THEN Len(callbacks)
             ELSE CHOOSE i \in raising : \A j \in raising : i <= j
    IN  [i \in 1..n |->
            [listener |-> callbacks[i], device |-> device,
             raised |-> callbacks[i] \in RaisingListeners]]

\* InputDeviceManager._notify_device_changed: the calls it makes, in order;
\* a callback that raises is logged and the loop goes on.
notify_device_changed(callbacks, device) ==
    [i \in 1..Len(callbacks) |->
        [listener |-> callbacks[i], device |-> device,
         raised |-> callbacks[i] \in RaisingListeners]]

\* ------------------------------------------------------- InputManager
\* default_bindings in InputManager._init_keyboard_support (the controls
\* the processor shapes).
DefaultBindings ==
    [steer_left |-> "a", steer_right |-> "d", throttle |-> "w", brake |-> "s"]

\* Bindings with steer-left moved to another key.
ReboundBindings == [DefaultBindings EXCEPT !.steer_left = "j"]

\* The main program configuration InputManager is constructed with.
DefaultMainConfig == [key_bindings |-> DefaultBindings, response_speed |-> One]

\* keyboard_config as _init_keyboard_support builds it from self.config.
keyboard_config(config) ==
    [steering_keys |-> [left |-> config.key_bindings.steer_left,
                        right |-> config.key_bindings.steer_right],
     throttle_key |-> config.key_bindings.throttle,
     brake_key |-> config.key_bindings.brake,
     sensitivity |-> [steering |-> config.response_speed,
                      throttle |-> One, brake |-> One],
     smoothing |-> [steering |-> 3000, throttle |-> 2000, brake |-> 2000]]

\* KeyboardProcessor.__init__ on a configuration dictionary:
\* self.config = config.get('keyboard_controls', {}), every later .get(..)
\* of a missing entry giving its default.
KeyboardProcessor(config) ==
    NewProcessor(IF "keyboard_controls" \in DOMAIN config
                 THEN config.keyboard_controls
                 ELSE DefaultConfig)

\* --------------------------------------------------------------- state
VARIABLES
    now,        \* time.time(), in time units
    procs,      \* the KeyboardProcessor objects, by identity
    last,       \* the last operation and the state it started from
    nevents,    \* key events delivered so far
    nticks,     \* update() calls so far
    os_down,    \* the keys physically down (keyboard.is_pressed)
    current_device,             \* InputDeviceManager.current_device
    last_keyboard_time,         \* InputDeviceManager.last_keyboard_time
    last_wheel_time,            \* InputDeviceManager.last_wheel_time
    device_changed_callbacks,   \* InputDeviceManager.device_changed_callbacks
    detect_wake,    \* when the detection loop's sleep ends
    sample,         \* the detection loop's last completed iteration
    lock,           \* KeyboardProcessor.lock of each processor: its holder
    th,             \* where each thread is in the call it is making
    committed,      \* the axis triples update() has returned with
    read_result,    \* what the last get_inputs() returned
    mgr_config,         \* InputManager.config
    keyboard_processor, \* InputManager.keyboard_processor: which processor
    last_update,        \* InputManager.last_update
    loop,           \* where InputManager._input_loop is in its iteration
    rc,             \* where a reconfiguration call is
    tick_log,       \* the input loop's last completed keyboard tick
    running,        \* the running flag of InputManager and InputDeviceManager
    pc,             \* where each loop thread and the cleanup() caller is
    tick_failed,    \* an iteration of the input loop has raised
    sm,             \* one run of _smooth_value steps: its arguments and value
    device_lock,    \* InputDeviceManager.device_lock: its holder
    notifying,      \* the callback _notify_device_changed is at (0: none)
    device_read,    \* what the input loop's last get_current_device() returned
    thread_sync,    \* ThreadSync: _task_queue, _results, _result_ready
    sync_th,        \* each non-main thread's place in run_on_main
    sync_main,      \* the main thread's place in process_tasks
    sync_log,       \* the tasks enqueued and the tasks executed, in order
    periodic,       \* PeriodicUpdates: _update_initialized, _updates_active
    periodic_th,    \* each thread's place in PeriodicUpdates.start
    tk,             \* the callbacks gui.root.after has scheduled
    conv            \* the last two calls of _convert_to_axis_values

procVars == <<procs, last, nevents, nticks>>
devVars ==
    <<os_down, current_device, last_keyboard_time, last_wheel_time,
      device_changed_callbacks, detect_wake, sample>>
concVars == <<lock, th, committed, read_result>>
mgrVars ==
    <<mgr_config, keyboard_processor, last_update, loop, rc, tick_log>>
lifeVars == <<running, pc, tick_failed>>
lockVars == <<device_lock, notifying, device_read>>
syncVars == <<thread_sync, sync_th, sync_main, sync_log>>
periodicVars == <<periodic, periodic_th, tk>>
guiVars == <<syncVars, periodicVars, conv>>
vars ==
    <<now, procVars, devVars, concVars, lifeVars, mgrVars, sm, lockVars,
      guiVars>>

\* What the processor's operations leave alone, and the device manager's.
nonProcVars ==
    <<devVars, concVars, lifeVars, mgrVars, sm, lockVars, guiVars>>
nonDevVars ==
    <<procVars, concVars, mgrVars, lifeVars, sm, lockVars, guiVars>>

\* Configurations the processor is constructed with.
BypassConfig ==
    [DefaultConfig EXCEPT !.gradual_turn = FALSE,
                          !.progressive_acceleration = FALSE,
                          !.counter_steer_strength = 1000]

NoCenterConfig ==
    [DefaultConfig EXCEPT !.return_to_center = FALSE,
                          !.counter_steer_assist = FALSE,
                          !.anti_spin_assist = FALSE]

Configs == {DefaultConfig, BypassConfig, NoCenterConfig}

\* The keys a processor built from the default bindings monitors.
BoundKeys == {"a", "d", "w", "s"}

\* delta_time values passed to update().
DeltaTimes == {0, 1, 3}

NoOp ==
    [op |-> "init", key |-> "", dt |-> 0, t |-> 0,
     pre |-> NewProcessor(DefaultConfig)]

InitProcessor ==
    /\ now = StartTime
    /\ last = NoOp
    /\ nevents = 0
    /\ nticks = 0

NoSample ==
    [taken |-> FALSE, t |-> 0, pre_device |-> UNKNOWN, new_device |-> UNKNOWN,
     keyboard_seen |-> FALSE, callbacks |-> <<>>, calls |-> <<>>]

\* InputDeviceManager.__init__
InitDevice ==
    /\ os_down = {}
    /\ current_device = UNKNOWN
    /\ last_keyboard_time = 0
    /\ last_wheel_time = 0
    /\ device_changed_callbacks = <<>>
    /\ detect_wake = StartTime
    /\ sample = NoSample

\* The threads that call into one KeyboardProcessor: the input loop, the
\* keyboard hook thread, and a thread that reads the axes.
Workers == {"input_thread", "hook_thread"}
Reader == "reader_thread"
Threads == Workers \cup {Reader}

FREE == "free"

Idle ==
    [pc |-> "idle", op |-> "", key |-> "", dt |-> 0, steering |-> 0,
     throttle |-> 0]

\* Lock() in KeyboardProcessor.__init__; no call in progress.
InitThreads ==
    /\ lock = <<FREE>>
    /\ th = [t \in Threads |-> Idle]
    /\ committed = {get_inputs(NewProcessor(DefaultConfig))}
    /\ read_result = get_inputs(NewProcessor(DefaultConfig))

LoopIdle == [pc |-> "idle", dt |-> 0, proc |-> 0]

NoTick ==
    [done |-> FALSE, updated |-> 0, read |-> 0,
     inputs |-> get_inputs(NewProcessor(DefaultConfig))]

\* InputManager.__init__
InitManager ==
    /\ mgr_config = DefaultMainConfig
    /\ keyboard_processor = 1
    /\ last_update = StartTime
    /\ loop = LoopIdle
    /\ rc = "idle"
    /\ tick_log = NoTick

LoopThreads == {"input_thread", "detection_thread"}

\* InputManager.__init__ and InputDeviceManager.__init__: both flags set,
\* both threads started; nobody has called cleanup().
InitLife ==
    /\ running = [InputManager |-> TRUE, InputDeviceManager |-> TRUE]
    /\ pc = [input_thread |-> "test", detection_thread |-> "test",
             main |-> "idle"]
    /\ tick_failed = FALSE

\* No run of smoothing steps is under way.
NoSmoothing ==
    [current |-> 0, target |-> 0, smoothing |-> 0, delta_time |-> 0,
     ticks |-> 0, previous |-> 0]

\* Threads other than the main thread that call into ThreadSync or
\* PeriodicUpdates.
Callers == {"t1", "t2"}

NoTask == [id |-> "none", call |-> 0, raises |-> FALSE]

\* A thread that is not inside run_on_main; returned is what its last call
\* gave back.
NoReturn == [kind |-> "nothing", of |-> NoTask, exc |-> FALSE]

NotCalling ==
    [pc |-> "idle", calls |-> 0, task |-> NoTask, returned |-> NoReturn]

\* ThreadSync.__init__
InitSync ==
    /\ thread_sync = [task_queue |-> <<>>, results |-> <<>>,
                      result_ready |-> FALSE]
    /\ sync_th = [t \in Callers |-> NotCalling]
    /\ sync_main = [pc |-> "idle", task |-> NoTask]
    /\ sync_log = [enqueued |-> <<>>, executed |-> <<>>, cleared |-> FALSE]

\* PeriodicUpdates.__init__
InitPeriodic ==
    /\ periodic = [update_initialized |-> FALSE, updates_active |-> TRUE]
    /\ periodic_th = [t \in Callers |-> "idle"]
    /\ tk = [visualization |-> 0, process_check |-> 0, callback |-> "none",
             stopped |-> FALSE, ran_after_stop |-> FALSE]

\* No conversion has been made.
NoConversion ==
    [made |-> FALSE,
     inputs |-> [steering |-> 0, throttle |-> 0, brake |-> 0],
     axis_values |-> [steering |-> 0, throttle |-> 0, brake |-> 0]]

InitGui ==
    /\ InitSync
    /\ InitPeriodic
    /\ conv = [previous |-> NoConversion, current |-> NoConversion]

\* InputDeviceManager.__init__: self.device_lock = threading.Lock()
InitDeviceLock ==
    /\ device_lock = FREE
    /\ notifying = 0
    /\ device_read = "unread"

Init ==
    /\ InitProcessor
    /\ InitDevice
    /\ InitThreads
    /\ InitManager
    /\ InitLife
    /\ InitDeviceLock
    /\ InitGui
    /\ sm = NoSmoothing
    /\ \E c \in Configs : procs = <<NewProcessor(c)>>

\* The clock advances by d.
Advance(d) ==
    /\ now + d <= StartTime + MaxTime
    /\ now' = now + d
    /\ UNCHANGED <<procVars, devVars, concVars, lifeVars, mgrVars, sm,
                   lockVars, guiVars>>

\* keyboard delivers a key-down event to the processor's handler.
KeyDown(k, bound) ==
    /\ nevents < bound
    /\ procs' = [procs EXCEPT ![1] = key_pressed(@, k, now)]
    /\ last' = [op |-> "key_pressed", key |-> k, dt |-> 0, t |-> now,
                pre |-> procs[1]]
    /\ nevents' = nevents + 1
    /\ UNCHANGED <<now, nticks, nonProcVars>>

\* keyboard delivers a key-up event to the processor's handler.
KeyUp(k, bound) ==
    /\ nevents < bound
    /\ procs' = [procs EXCEPT ![1] = key_released(@, k, now)]
    /\ last' = [op |-> "key_released", key |-> k, dt |-> 0, t |-> now,
                pre |-> procs[1]]
    /\ nevents' = nevents + 1
    /\ UNCHANGED <<now, nticks, nonProcVars>>

\* One call of update(delta_time).
Tick ==
    /\ nticks < MaxTicks
    /\ \E dt \in DeltaTimes :
         /\ procs' = [procs EXCEPT ![1] = update(@, dt, now)]
         /\ last' = [op |-> "update", key |-> "", dt |-> dt, t |-> now,
                     pre |-> procs[1]]
    /\ nticks' = nticks + 1
    /\ UNCHANGED <<now, nevents, nonProcVars>>

\* A configuration whose 'assists' entry is null (not a dictionary): the
\* other entries are the defaults.
NullAssistsConfig ==
    [k \in DOMAIN DefaultConfig \cup {"assists"} |->
        IF k = "assists" THEN "None" ELSE DefaultConfig[k]]

\* _apply_assists raises: self.config.get('assists', {}) is not a dictionary
\* and assists.get(..) is an AttributeError.
apply_assists_raises(p) == "assists" \in DOMAIN p.config

\* One call of update(delta_time) in which _apply_assists raises:
\* _update_steering and _update_pedals have run, the exception leaves
\* "with self.lock" and update().
TickRaises ==
    /\ nticks < MaxTicks
    /\ apply_assists_raises(procs[1])
    /\ \E dt \in DeltaTimes :
         /\ procs' = [procs EXCEPT ![1] =
                         update_pedals(update_steering(@, dt, now), dt, now)]
         /\ last' = [op |-> "update_raised", key |-> "", dt |-> dt, t |-> now,
                     pre |-> procs[1]]
    /\ nticks' = nticks + 1
    /\ UNCHANGED <<now, nevents, nonProcVars>>

InitFault ==
    /\ InitProcessor
    /\ InitDevice
    /\ InitThreads
    /\ InitManager
    /\ InitLife
    /\ InitDeviceLock
    /\ InitGui
    /\ sm = NoSmoothing
    /\ procs = <<NewProcessor(NullAssistsConfig)>>

\* The shaping pipeline of a processor whose every tick fails in the
\* assist step.
NextFault ==
    \/ Advance(5)
    \/ \E k \in BoundKeys : KeyDown(k, MaxHeld)
    \/ \E k \in BoundKeys : KeyUp(k, MaxHeld)
    \/ TickRaises

SpecFault == InitFault /\ [][NextFault]_vars

\* The shaping pipeline: key events on the monitored keys, ticks, the clock.
Next ==
    \/ Advance(5)
    \/ \E k \in BoundKeys : KeyDown(k, MaxHeld)
    \/ \E k \in BoundKeys : KeyUp(k, MaxHeld)
    \/ Tick

Spec == Init /\ [][Next]_vars

\* The steering pipeline with both steering keys: the keys go down at
\* different moments and ticks run while both are held.
SteerKeys == {"a", "d"}

InitSteer ==
    /\ InitProcessor
    /\ InitDevice
    /\ InitThreads
    /\ InitManager
    /\ InitLife
    /\ InitDeviceLock
    /\ InitGui
    /\ sm = NoSmoothing
    /\ procs = <<NewProcessor(DefaultConfig)>>

NextSteer ==
    \/ Advance(1)
    \/ \E k \in SteerKeys : KeyDown(k, MaxHeld)
    \/ Tick

SpecSteer == InitSteer /\ [][NextSteer]_vars

\* The steering pipeline from a turned wheel: the processor has steered to
\* some value and both steering keys are up.
TurnedSteering == {0, 5000, One}

InitCenter ==
    /\ InitProcessor
    /\ InitDevice
    /\ InitThreads
    /\ InitManager
    /\ InitLife
    /\ InitDeviceLock
    /\ InitGui
    /\ sm = NoSmoothing
    /\ \E c \in {DefaultConfig, NoCenterConfig}, s \in TurnedSteering :
         procs = <<[NewProcessor(c) EXCEPT !.steering_value = s]>>

NextCenter ==
    \/ Advance(5)
    \/ \E k \in SteerKeys : KeyDown(k, MaxHeld)
    \/ \E k \in SteerKeys : KeyUp(k, MaxHeld)
    \/ Tick

SpecCenter == InitCenter /\ [][NextCenter]_vars

\* The pipeline with smoothing switched off for steering, for the pedals or
\* for both, from axis values left by earlier ticks.
DirectSteeringConfig == [DefaultConfig EXCEPT !.gradual_turn = FALSE]

DirectPedalsConfig == [DefaultConfig EXCEPT !.progressive_acceleration = FALSE]

EarlierAxes == {0, 5000, 9000}

BypassKeys == {"d", "w"}

InitBypass ==
    /\ InitProcessor
    /\ InitDevice
    /\ InitThreads
    /\ InitManager
    /\ InitLife
    /\ InitDeviceLock
    /\ InitGui
    /\ sm = NoSmoothing
    /\ \E c \in {DirectSteeringConfig, DirectPedalsConfig, BypassConfig},
          s \in EarlierAxes, thr \in EarlierAxes :
         procs = <<[NewProcessor(c) EXCEPT !.steering_value = s,
                                           !.throttle_value = thr]>>

NextBypass ==
    \/ Advance(5)
    \/ \E k \in BypassKeys : KeyDown(k, MaxHeld)
    \/ \E k \in BypassKeys : KeyUp(k, MaxHeld)
    \/ Tick

SpecBypass == InitBypass /\ [][NextBypass]_vars

\* The raw hold curve: the throttle key is held for short and for long
\* times, and ticks without smoothing read the raw value into throttle.
HoldSteps == {5, 45}

Wait(d) ==
    /\ now + d <= StartTime + MaxHold
    /\ now' = now + d
    /\ UNCHANGED <<procVars, devVars, concVars, lifeVars, mgrVars, sm,
                   lockVars, guiVars>>

InitCurve ==
    /\ InitProcessor
    /\ InitDevice
    /\ InitThreads
    /\ InitManager
    /\ InitLife
    /\ InitDeviceLock
    /\ InitGui
    /\ sm = NoSmoothing
    /\ procs = <<NewProcessor(BypassConfig)>>

NextCurve ==
    \/ \E d \in HoldSteps : Wait(d)
    \/ KeyDown("w", MaxHeld)
    \/ KeyUp("w", MaxHeld)
    \/ Tick

SpecCurve == InitCurve /\ [][NextCurve]_vars

\* The key-hold tracker alone: any key event at any time, no ticks.
EventKeys == {"a", "w", "x"}

InitKeys ==
    /\ InitProcessor
    /\ InitDevice
    /\ InitThreads
    /\ InitManager
    /\ InitLife
    /\ InitDeviceLock
    /\ InitGui
    /\ sm = NoSmoothing
    /\ procs = <<NewProcessor(DefaultConfig)>>

NextKeys ==
    \/ Advance(2)
    \/ \E k \in EventKeys : KeyDown(k, MaxEvents)
    \/ \E k \in EventKeys : KeyUp(k, MaxEvents)

SpecKeys == InitKeys /\ [][NextKeys]_vars

\* The assist step alone, applied to shaped axis values drawn from a grid
\* around the thresholds, under every combination of the assist settings.
SteeringGrid ==
    {-One, -9000, -8500, -7000, 0, 4500, 6000, 6500, 7000, 8000, 8001, 9000, One}
ThrottleGrid == {0, 3400, 7000, 7001, 7500, 8000, 8001, 8500, 9000, One}
StrengthGrid == {0, 1000, DefaultCounterSteerStrength, DefaultSpinPrevention, One}

InitAssist ==
    /\ InitProcessor
    /\ InitDevice
    /\ InitThreads
    /\ InitManager
    /\ InitLife
    /\ InitDeviceLock
    /\ InitGui
    /\ sm = NoSmoothing
    /\ \E s \in SteeringGrid, thr \in ThrottleGrid, cs \in BOOLEAN, as \in BOOLEAN,
          k1 \in StrengthGrid, k2 \in StrengthGrid :
         procs = <<[NewProcessor([DefaultConfig EXCEPT
                        !.counter_steer_assist = cs, !.anti_spin_assist = as,
                        !.counter_steer_strength = k1, !.spin_prevention = k2])
                    EXCEPT !.steering_value = s, !.throttle_value = thr]>>

\* One call of _apply_assists on the shaped values.
Assist ==
    /\ last.op = "init"
    /\ procs' = [procs EXCEPT ![1] = apply_assists(@)]
    /\ last' = [op |-> "apply_assists", key |-> "", dt |-> 0, t |-> now,
                pre |-> procs[1]]
    /\ UNCHANGED <<now, nevents, nticks, nonProcVars>>

NextAssist == Assist

SpecAssist == InitAssist /\ [][NextAssist]_vars

\* ------------------------------------------------ _smooth_value alone
\* Axis values and targets, some of them within the snap distance.
SmoothGrid == {-One, -5000, -9, 0, 5, 5000, One}

\* center_speed, pedal_smoothing, steering_smoothing
Smoothings == {DefaultCenterSpeed, PedalSmoothing, SteeringSmoothing}

\* delta_time > 0
SmoothDeltaTimes == {1, 3}

InitSmooth ==
    /\ InitProcessor
    /\ InitDevice
    /\ InitThreads
    /\ InitManager
    /\ InitLife
    /\ InitDeviceLock
    /\ InitGui
    /\ procs = <<NewProcessor(DefaultConfig)>>
    /\ \E c \in SmoothGrid, target \in SmoothGrid, s \in Smoothings,
          dt \in SmoothDeltaTimes :
         sm = [current |-> c, target |-> target, smoothing |-> s,
               delta_time |-> dt, ticks |-> 0, previous |-> c]

\* One tick: current = self._smooth_value(current, target, smoothing, dt)
SmoothStep ==
    /\ sm.ticks < MaxSmoothTicks
    /\ sm' = [sm EXCEPT
                !.previous = sm.current,
                !.current = smooth_value(sm.current, sm.target, sm.smoothing,
                                         sm.delta_time),
                !.ticks = @ + 1]
    /\ UNCHANGED <<now, procVars, devVars, concVars, mgrVars, lifeVars,
                   lockVars, guiVars>>

NextSmooth == SmoothStep

SpecSmooth == InitSmooth /\ [][NextSmooth]_vars

\* The assist step under strengths outside [0, 1] as well.
OutOfRangeStrengths == {-One, -1, One + 1, 15000}

InitRange ==
    /\ InitProcessor
    /\ InitDevice
    /\ InitThreads
    /\ InitManager
    /\ InitLife
    /\ InitDeviceLock
    /\ InitGui
    /\ sm = NoSmoothing
    /\ \E s \in SteeringGrid, thr \in ThrottleGrid,
          k1 \in OutOfRangeStrengths \cup {DefaultCounterSteerStrength},
          k2 \in OutOfRangeStrengths \cup {DefaultSpinPrevention} :
         procs = <<[NewProcessor([DefaultConfig EXCEPT
                        !.counter_steer_strength = k1, !.spin_prevention = k2])
                    EXCEPT !.steering_value = s, !.throttle_value = thr]>>

NextRange == Assist

SpecRange == InitRange /\ [][NextRange]_vars

\* ------------------------------------------------ device arbitration
\* A key goes down or comes up on the physical keyboard.
OsKey(k) ==
    /\ os_down' = IF k \in os_down THEN os_down \ {k} ELSE os_down \cup {k}
    /\ UNCHANGED <<now, current_device, last_keyboard_time, last_wheel_time,
                   device_changed_callbacks, detect_wake, sample, nonDevVars>>

\* InputDeviceManager.register_device_changed_callback
Register(l) ==
    /\ Len(device_changed_callbacks) < MaxListeners
    /\ device_changed_callbacks' = Append(device_changed_callbacks, l)
    /\ UNCHANGED <<now, os_down, current_device, last_keyboard_time,
                   last_wheel_time, detect_wake, sample, nonDevVars>>

\* The body of one iteration of _device_detection_loop: the activity
\* checks, the choice of device and the notification.
SampleEffect ==
    LET keyboard_seen == (os_down \cap DetectionKeys) # {}
        keyboard_time == IF keyboard_seen THEN now ELSE last_keyboard_time
        wheel_time == IF check_wheel_activity THEN now ELSE last_wheel_time
        current_time == now
        keyboard_active == is_active(current_time, keyboard_time)
        wheel_active == is_active(current_time, wheel_time)
        new_device == determine_device(keyboard_active, wheel_active)
        changed == device_changed(new_device, current_device)
    IN  /\ last_keyboard_time' = keyboard_time
        /\ last_wheel_time' = wheel_time
        /\ current_device' = IF changed THEN new_device ELSE current_device
        /\ sample' =
             [taken |-> TRUE, t |-> current_time,
              pre_device |-> current_device, new_device |-> new_device,
              keyboard_seen |-> keyboard_seen,
              callbacks |-> device_changed_callbacks,
              calls |-> IF changed
                        THEN notify_device_changed(device_changed_callbacks,
                                                   new_device)
                        ELSE <<>>]

\* One iteration of InputDeviceManager._device_detection_loop, taken when
\* its sleep has ended: the body and the start of the next sleep.
Sample ==
    /\ now >= detect_wake
    /\ SampleEffect
    /\ detect_wake' = now + PollInterval
    /\ UNCHANGED <<now, os_down, device_changed_callbacks, nonDevVars>>

\* An iteration in which keyboard.is_pressed raises: the except branch logs
\* the error and sleeps for a second; nothing has been sampled.
SampleError ==
    /\ now >= detect_wake
    /\ detect_wake' = now + ErrorBackoff
    /\ UNCHANGED <<now, os_down, current_device, last_keyboard_time,
                   last_wheel_time, device_changed_callbacks, sample,
                   nonDevVars>>

DeviceKeys == {"w", "x"}

InitDev ==
    /\ InitProcessor
    /\ InitDevice
    /\ InitThreads
    /\ InitManager
    /\ InitLife
    /\ InitDeviceLock
    /\ InitGui
    /\ sm = NoSmoothing
    /\ procs = <<NewProcessor(DefaultConfig)>>

NextDev ==
    \/ Advance(1)
    \/ \E k \in DeviceKeys : OsKey(k)
    \/ \E l \in Listeners : Register(l)
    \/ Sample
    \/ SampleError

SpecDev == InitDev /\ [][NextDev]_vars

\* An iteration in which self._check_wheel_activity() raises: the keyboard
\* check before it has run, the except branch of the loop takes the rest of
\* the iteration (no device is computed, nobody is notified) and sleeps for
\* a second. sample records the iteration as not completed.
SampleWheelError ==
    /\ now >= detect_wake
    /\ LET keyboard_seen == (os_down \cap DetectionKeys) # {}
       IN  /\ last_keyboard_time' =
                  IF keyboard_seen THEN now ELSE last_keyboard_time
           /\ sample' =
                [taken |-> FALSE, t |-> now,
                 pre_device |-> current_device, new_device |-> current_device,
                 keyboard_seen |-> keyboard_seen,
                 callbacks |-> device_changed_callbacks, calls |-> <<>>]
    /\ detect_wake' = now + ErrorBackoff
    /\ UNCHANGED <<now, os_down, current_device, last_wheel_time,
                   device_changed_callbacks, nonDevVars>>

InitWheel ==
    /\ InitProcessor
    /\ InitDevice
    /\ InitThreads
    /\ InitManager
    /\ InitLife
    /\ InitDeviceLock
    /\ InitGui
    /\ sm = NoSmoothing
    /\ procs = <<NewProcessor(DefaultConfig)>>

\* The detection loop with a wheel-polling call that can fail.
NextWheel ==
    \/ Advance(1)
    \/ \E k \in DeviceKeys : OsKey(k)
    \/ \E l \in Listeners : Register(l)
    \/ Sample
    \/ SampleWheelError

SpecWheel == InitWheel /\ [][NextWheel]_vars

\* ------------------------------------------- threads on one processor
\* A thread enters "with self.lock" whatever the lock's state.
can_acquire_unlocked(lk, t) == TRUE

\* "with self.lock": the lock can be taken when nobody holds it.
can_acquire(lk, t) == lk = FREE

\* A thread starts a call of _key_pressed, _key_released or update.
Call(t, op, key, dt) ==
    /\ th[t].pc = "idle"
    /\ th' = [th EXCEPT ![t] = [Idle EXCEPT !.pc = "acquire", !.op = op,
                                            !.key = key, !.dt = dt]]
    /\ UNCHANGED <<now, procs, last, lock, committed, read_result, devVars, mgrVars, lifeVars, sm,
                   lockVars, guiVars>>

CallKeyPressed(t, k) ==
    /\ nevents < MaxHeld
    /\ nevents' = nevents + 1
    /\ nticks' = nticks
    /\ Call(t, "key_pressed", k, 0)

CallKeyReleased(t, k) ==
    /\ nevents < MaxHeld
    /\ nevents' = nevents + 1
    /\ nticks' = nticks
    /\ Call(t, "key_released", k, 0)

CallUpdate(t) ==
    /\ nticks < MaxTicks
    /\ nticks' = nticks + 1
    /\ nevents' = nevents
    /\ Call(t, "update", "", 3)

\* __enter__ of "with self.lock".
AcquireLock(t) ==
    /\ th[t].pc = "acquire"
    /\ can_acquire(lock[1], t)
    /\ lock' = [lock EXCEPT ![1] = t]
    /\ th' = [th EXCEPT ![t].pc = "body"]
    /\ UNCHANGED <<now, procVars, committed, read_result, devVars, mgrVars, lifeVars, sm,
                   lockVars, guiVars>>

\* The body of _key_pressed or _key_released.
KeyHandlerBody(t) ==
    /\ th[t].pc = "body"
    /\ th[t].op \in {"key_pressed", "key_released"}
    /\ procs' = [procs EXCEPT ![1] =
                    IF th[t].op = "key_pressed"
                    THEN key_pressed(@, th[t].key, now)
                    ELSE key_released(@, th[t].key, now)]
    /\ last' = [op |-> th[t].op, key |-> th[t].key, dt |-> 0, t |-> now,
                pre |-> procs[1]]
    /\ th' = [th EXCEPT ![t].pc = "release"]
    /\ UNCHANGED <<now, nevents, nticks, lock, committed, read_result, devVars, mgrVars, lifeVars, sm,
                   lockVars, guiVars>>

\* update: self._update_steering(delta_time)
UpdateSteering(t) ==
    /\ th[t].pc = "body"
    /\ th[t].op = "update"
    /\ procs' = [procs EXCEPT ![1] = update_steering(@, th[t].dt, now)]
    /\ last' = [op |-> "update", key |-> "", dt |-> th[t].dt, t |-> now,
                pre |-> procs[1]]
    /\ th' = [th EXCEPT ![t].pc = "pedals"]
    /\ UNCHANGED <<now, nevents, nticks, lock, committed, read_result, devVars, mgrVars, lifeVars, sm,
                   lockVars, guiVars>>

\* update: self._update_pedals(delta_time)
UpdatePedals(t) ==
    /\ th[t].pc = "pedals"
    /\ procs' = [procs EXCEPT ![1] = update_pedals(@, th[t].dt, now)]
    /\ th' = [th EXCEPT ![t].pc = "assists"]
    /\ UNCHANGED <<now, last, nevents, nticks, lock, committed, read_result,
                   devVars, mgrVars, lifeVars, sm,
                   lockVars, guiVars>>

\* update: self._apply_assists()
ApplyAssists(t) ==
    /\ th[t].pc = "assists"
    /\ procs' = [procs EXCEPT ![1] = apply_assists(@)]
    /\ th' = [th EXCEPT ![t].pc = "release"]
    /\ UNCHANGED <<now, last, nevents, nticks, lock, committed, read_result,
                   devVars, mgrVars, lifeVars, sm,
                   lockVars, guiVars>>

\* __exit__ of "with self.lock"; the call returns.  What an update leaves
\* in the axes is the tick's committed output.
ReleaseLock(t) ==
    /\ th[t].pc = "release"
    /\ lock' = [lock EXCEPT ![1] = FREE]
    /\ th' = [th EXCEPT ![t] = Idle]
    /\ committed' = IF th[t].op = "update"
                    THEN committed \cup {get_inputs(procs[1])}
                    ELSE committed
    /\ UNCHANGED <<now, procVars, read_result, devVars, mgrVars, lifeVars, sm,
                   lockVars, guiVars>>

\* get_inputs, which takes no lock: 'steering': self.steering_value
ReadSteering ==
    /\ th[Reader].pc = "idle"
    /\ th' = [th EXCEPT ![Reader] =
                 [Idle EXCEPT !.pc = "throttle", !.op = "get_inputs",
                              !.steering = procs[1].steering_value]]
    /\ UNCHANGED <<now, procVars, lock, committed, read_result, devVars, mgrVars, lifeVars, sm,
                   lockVars, guiVars>>

\* get_inputs: 'throttle': self.throttle_value
ReadThrottle ==
    /\ th[Reader].pc = "throttle"
    /\ th' = [th EXCEPT ![Reader].pc = "brake",
                        ![Reader].throttle = procs[1].throttle_value]
    /\ UNCHANGED <<now, procVars, lock, committed, read_result, devVars, mgrVars, lifeVars, sm,
                   lockVars, guiVars>>

\* get_inputs: 'brake': self.brake_value, and the return of the dictionary.
ReadBrake ==
    /\ th[Reader].pc = "brake"
    /\ read_result' = [steering |-> th[Reader].steering,
                       throttle |-> th[Reader].throttle,
                       brake |-> procs[1].brake_value]
    /\ th' = [th EXCEPT ![Reader] = [Idle EXCEPT !.op = "get_inputs"]]
    /\ UNCHANGED <<now, procVars, lock, committed, devVars, mgrVars, lifeVars, sm,
                   lockVars, guiVars>>

HeldKeys == {"d", "w"}

NextConc ==
    \/ Advance(10)
    \/ \E t \in Workers, k \in HeldKeys : CallKeyPressed(t, k)
    \/ \E t \in Workers, k \in HeldKeys : CallKeyReleased(t, k)
    \/ \E t \in Workers : CallUpdate(t)
    \/ \E t \in Workers : AcquireLock(t)
    \/ \E t \in Workers : KeyHandlerBody(t)
    \/ \E t \in Workers : UpdateSteering(t)
    \/ \E t \in Workers : UpdatePedals(t)
    \/ \E t \in Workers : ApplyAssists(t)
    \/ \E t \in Workers : ReleaseLock(t)
    \/ ReadSteering
    \/ ReadThrottle
    \/ ReadBrake

InitConc ==
    /\ InitProcessor
    /\ InitDevice
    /\ InitThreads
    /\ InitManager
    /\ InitLife
    /\ InitDeviceLock
    /\ InitGui
    /\ sm = NoSmoothing
    /\ procs = <<NewProcessor(DefaultConfig)>>

SpecConc == InitConc /\ [][NextConc]_vars

\* ------------------------------------------------ InputManager's loop
\* A key goes down or comes up: the keyboard's state changes and the hook
\* of every processor constructed so far is called (none is unhooked when
\* _init_keyboard_support replaces the processor).
OsKeyEvent(k) ==
    /\ nevents < MaxHeld
    /\ nevents' = nevents + 1
    /\ os_down' = IF k \in os_down THEN os_down \ {k} ELSE os_down \cup {k}
    /\ procs' = [i \in 1..Len(procs) |->
                    IF k \in os_down THEN key_released(procs[i], k, now)
                                     ELSE key_pressed(procs[i], k, now)]
    /\ last' = [op |-> IF k \in os_down THEN "key_released" ELSE "key_pressed",
                key |-> k, dt |-> 0, t |-> now, pre |-> procs[1]]
    /\ UNCHANGED <<now, nticks, current_device, last_keyboard_time,
                   last_wheel_time, device_changed_callbacks, detect_wake,
                   sample, concVars, mgrVars, lifeVars, sm,
                   lockVars, guiVars>>

\* _input_loop: "if device == InputDevice.KEYBOARD", otherwise the wheel branch.
shapes_unless_wheel(device) == device # STEERING_WHEEL

shapes(device) == device = KEYBOARD

\* _input_loop with a wheel branch that runs the keyboard processor too.
LoopOtherUpdates ==
    /\ loop.pc = "idle"
    /\ ~shapes(current_device)
    /\ last_update' = now
    /\ procs' = [procs EXCEPT ![keyboard_processor] =
                    update(@, now - last_update, now)]
    /\ UNCHANGED <<now, last, nevents, nticks, devVars, concVars, lifeVars,
                   mgr_config, keyboard_processor, loop, rc, tick_log, sm,
                   lockVars, guiVars>>

\* _input_loop: the start of an iteration in which the device is not the
\* keyboard (_process_wheel_input does nothing), up to its sleep.
LoopOther ==
    /\ loop.pc = "idle"
    /\ ~shapes(current_device)
    /\ last_update' = now
    /\ UNCHANGED <<now, procVars, devVars, concVars, lifeVars, mgr_config,
                   keyboard_processor, loop, rc, tick_log, sm,
                   lockVars, guiVars>>

\* _input_loop: the start of an iteration that reads KEYBOARD.
LoopStart ==
    /\ loop.pc = "idle"
    /\ shapes(current_device)
    /\ nticks < MaxTicks
    /\ nticks' = nticks + 1
    /\ last_update' = now
    /\ loop' = [pc |-> "update", dt |-> now - last_update, proc |-> 0]
    /\ UNCHANGED <<now, procs, last, nevents, devVars, concVars, lifeVars, mgr_config,
                   keyboard_processor, rc, tick_log, sm,
                   lockVars, guiVars>>

\* _process_keyboard_input: self.keyboard_processor.update(delta_time)
LoopUpdate ==
    /\ loop.pc = "update"
    /\ procs' = [procs EXCEPT ![keyboard_processor] = update(@, loop.dt, now)]
    /\ last' = [op |-> "update", key |-> "", dt |-> loop.dt, t |-> now,
                pre |-> procs[keyboard_processor]]
    /\ loop' = [loop EXCEPT !.pc = "read", !.proc = keyboard_processor]
    /\ UNCHANGED <<now, nevents, nticks, devVars, concVars, lifeVars, mgr_config,
                   keyboard_processor, last_update, rc, tick_log, sm,
                   lockVars, guiVars>>

\* _process_keyboard_input: inputs = self.keyboard_processor.get_inputs(),
\* then the conversion and the output of the axes; the iteration sleeps.
LoopRead ==
    /\ loop.pc = "read"
    /\ tick_log' = [done |-> TRUE, updated |-> loop.proc,
                    read |-> keyboard_processor,
                    inputs |-> get_inputs(procs[keyboard_processor])]
    /\ loop' = LoopIdle
    /\ UNCHANGED <<now, procVars, devVars, concVars, lifeVars, mgr_config,
                   keyboard_processor, last_update, rc, sm,
                   lockVars, guiVars>>

\* update_key_bindings: self.config['key_bindings'] = key_bindings
UpdateKeyBindings(b) ==
    /\ rc = "idle"
    /\ Len(procs) < MaxProcs
    /\ mgr_config' = [mgr_config EXCEPT !.key_bindings = b]
    /\ rc' = "init"
    /\ UNCHANGED <<now, procVars, devVars, concVars, lifeVars,
                   keyboard_processor, last_update, loop, tick_log, sm,
                   lockVars, guiVars>>

\* set_config: self.config = config
SetConfig(c) ==
    /\ rc = "idle"
    /\ Len(procs) < MaxProcs
    /\ mgr_config' = c
    /\ rc' = "init"
    /\ UNCHANGED <<now, procVars, devVars, concVars, lifeVars,
                   keyboard_processor, last_update, loop, tick_log, sm,
                   lockVars, guiVars>>

\* _init_keyboard_support, called by both: a new KeyboardProcessor is
\* built from keyboard_config and replaces self.keyboard_processor.
InitKeyboardSupport ==
    /\ rc = "init"
    /\ procs' = Append(procs, KeyboardProcessor(keyboard_config(mgr_config)))
    /\ lock' = Append(lock, FREE)
    /\ keyboard_processor' = Len(procs) + 1
    /\ rc' = "idle"
    /\ UNCHANGED <<now, last, nevents, nticks, devVars, th, committed,
                   read_result, mgr_config, last_update, loop, tick_log,
                   lifeVars, sm,
                   lockVars, guiVars>>

LoopKeys == {"d"}

InitLoop ==
    /\ InitProcessor
    /\ InitDevice
    /\ InitThreads
    /\ InitManager
    /\ InitLife
    /\ InitDeviceLock
    /\ InitGui
    /\ sm = NoSmoothing
    /\ procs = <<KeyboardProcessor(keyboard_config(mgr_config))>>

NextLoop ==
    \/ Advance(4)
    \/ \E k \in LoopKeys : OsKeyEvent(k)
    \/ Sample
    \/ LoopOther
    \/ LoopStart
    \/ LoopUpdate
    \/ LoopRead
    \/ UpdateKeyBindings(ReboundBindings)
    \/ SetConfig([key_bindings |-> ReboundBindings, response_speed |-> 5000])
    \/ InitKeyboardSupport

SpecLoop == InitLoop /\ [][NextLoop]_vars

\* --------------------------------------------- the loops and cleanup()
\* "while self.running" never leaving the loop.
loop_test_forever(flag) == "body"

\* "while self.running": the iteration starts, or the loop (and with it
\* the thread) ends.
loop_test(flag) == IF flag THEN "body" ELSE "done"

\* An exception leaving the thread's function: no try in the loop.
on_loop_error_exit(t) == "done"

\* "except Exception" inside the while loop: the error is logged and the
\* thread sleeps before the next test of the flag.
on_loop_error(t) == "backoff"

\* _input_loop: while self.running
InputTest ==
    /\ pc.input_thread = "test"
    /\ pc' = [pc EXCEPT !.input_thread = loop_test(running.InputManager)]
    /\ UNCHANGED <<now, procVars, devVars, concVars, mgrVars, running,
                   tick_failed, sm,
                   lockVars, guiVars>>

\* _input_loop: one iteration without an error, up to its sleep; with the
\* device KEYBOARD it is the processor's update and the read of the axes.
InputTick ==
    /\ pc.input_thread = "body"
    /\ last_update' = now
    /\ IF current_device = KEYBOARD
       THEN /\ procs' = [procs EXCEPT ![keyboard_processor] =
                            update(@, now - last_update, now)]
            /\ last' = [op |-> "update", key |-> "", dt |-> now - last_update,
                        t |-> now, pre |-> procs[keyboard_processor]]
            /\ tick_log' = [done |-> TRUE, updated |-> keyboard_processor,
                            read |-> keyboard_processor,
                            inputs |-> get_inputs(procs'[keyboard_processor])]
       ELSE UNCHANGED <<procs, last, tick_log, sm,
                   lockVars, guiVars>>
    /\ tick_failed' = FALSE
    /\ pc' = [pc EXCEPT !.input_thread = "sleep"]
    /\ UNCHANGED <<now, nevents, nticks, devVars, concVars, mgr_config,
                   keyboard_processor, loop, rc, running, sm,
                   lockVars, guiVars>>

\* _process_keyboard_input: an exception in the tick is caught by its own
\* except branch and logged; the iteration goes on to its sleep.
InputTickCaught ==
    /\ pc.input_thread = "body"
    /\ current_device = KEYBOARD
    /\ last_update' = now
    /\ tick_failed' = TRUE
    /\ pc' = [pc EXCEPT !.input_thread = "sleep"]
    /\ UNCHANGED <<now, procVars, devVars, concVars, mgr_config,
                   keyboard_processor, loop, rc, tick_log, running, sm,
                   lockVars, guiVars>>

\* _input_loop (and InputController._update_loop, where update() is called
\* in the loop's own try): an exception reaches the loop's except branch.
InputTickRaises ==
    /\ pc.input_thread = "body"
    /\ last_update' = now
    /\ tick_failed' = TRUE
    /\ pc' = [pc EXCEPT !.input_thread = on_loop_error("input_thread")]
    /\ UNCHANGED <<now, procVars, devVars, concVars, mgr_config,
                   keyboard_processor, loop, rc, tick_log, running, sm,
                   lockVars, guiVars>>

\* time.sleep(1/60) or time.sleep(1.0) returns.
InputWake ==
    /\ pc.input_thread \in {"sleep", "backoff"}
    /\ pc' = [pc EXCEPT !.input_thread = "test"]
    /\ UNCHANGED <<now, procVars, devVars, concVars, mgrVars, running,
                   tick_failed, sm,
                   lockVars, guiVars>>

InputThread == InputTest \/ InputTick \/ InputTickCaught \/ InputTickRaises
               \/ InputWake

\* _device_detection_loop: while self.running
DetectionTest ==
    /\ pc.detection_thread = "test"
    /\ pc' = [pc EXCEPT !.detection_thread =
                 loop_test(running.InputDeviceManager)]
    /\ UNCHANGED <<now, procVars, devVars, concVars, mgrVars, running,
                   tick_failed, sm,
                   lockVars, guiVars>>

\* _device_detection_loop: one iteration, up to time.sleep(0.1)
DetectionSample ==
    /\ pc.detection_thread = "body"
    /\ SampleEffect
    /\ detect_wake' = now + PollInterval
    /\ pc' = [pc EXCEPT !.detection_thread = "sleep"]
    /\ UNCHANGED <<now, os_down, device_changed_callbacks, procVars,
                   concVars, mgrVars, running, tick_failed, sm,
                   lockVars, guiVars>>

\* _device_detection_loop: keyboard.is_pressed raises; the except branch.
DetectionRaises ==
    /\ pc.detection_thread = "body"
    /\ detect_wake' = now + ErrorBackoff
    /\ pc' = [pc EXCEPT !.detection_thread = on_loop_error("detection_thread")]
    /\ UNCHANGED <<now, os_down, current_device, last_keyboard_time,
                   last_wheel_time, device_changed_callbacks, sample,
                   procVars, concVars, mgrVars, running, tick_failed, sm,
                   lockVars, guiVars>>

\* time.sleep(0.1) or time.sleep(1) returns.
DetectionWake ==
    /\ pc.detection_thread \in {"sleep", "backoff"}
    /\ pc' = [pc EXCEPT !.detection_thread = "test"]
    /\ UNCHANGED <<now, procVars, devVars, concVars, mgrVars, running,
                   tick_failed, sm,
                   lockVars, guiVars>>

DetectionThread == DetectionTest \/ DetectionSample \/ DetectionRaises
                   \/ DetectionWake

\* InputManager.cleanup: self.running = False
CleanupStart ==
    /\ pc.main = "idle"
    /\ running' = [running EXCEPT !.InputManager = FALSE]
    /\ pc' = [pc EXCEPT !.main = "keyboard_processor.cleanup"]
    /\ UNCHANGED <<now, procVars, devVars, concVars, mgrVars, tick_failed, sm,
                   lockVars, guiVars>>

\* InputManager.cleanup: self.keyboard_processor.cleanup() (the key hooks
\* are removed)
CleanupProcessor ==
    /\ pc.main = "keyboard_processor.cleanup"
    /\ pc' = [pc EXCEPT !.main = "device_manager.cleanup"]
    /\ UNCHANGED <<now, procVars, devVars, concVars, mgrVars, running,
                   tick_failed, sm,
                   lockVars, guiVars>>

\* InputDeviceManager.cleanup: self.running = False, then the test
\* detection_thread.is_alive()
CleanupDevice ==
    /\ pc.main = "device_manager.cleanup"
    /\ running' = [running EXCEPT !.InputDeviceManager = FALSE]
    /\ pc' = [pc EXCEPT !.main = IF pc.detection_thread # "done"
                                 THEN "detection_thread.join"
                                 ELSE "input_thread.is_alive"]
    /\ UNCHANGED <<now, procVars, devVars, concVars, mgrVars, tick_failed, sm,
                   lockVars, guiVars>>

\* detection_thread.join(timeout=1.0) returns: the thread has ended or the
\* second has passed.
JoinDetection ==
    /\ pc.main = "detection_thread.join"
    /\ pc' = [pc EXCEPT !.main = "input_thread.is_alive"]
    /\ UNCHANGED <<now, procVars, devVars, concVars, mgrVars, running,
                   tick_failed, sm,
                   lockVars, guiVars>>

\* InputManager.cleanup: if self.input_thread.is_alive()
CleanupAlive ==
    /\ pc.main = "input_thread.is_alive"
    /\ pc' = [pc EXCEPT !.main = IF pc.input_thread # "done"
                                 THEN "input_thread.join"
                                 ELSE "returned"]
    /\ UNCHANGED <<now, procVars, devVars, concVars, mgrVars, running,
                   tick_failed, sm,
                   lockVars, guiVars>>

\* input_thread.join(timeout=1.0) returns; cleanup() returns.
JoinInput ==
    /\ pc.main = "input_thread.join"
    /\ pc' = [pc EXCEPT !.main = "returned"]
    /\ UNCHANGED <<now, procVars, devVars, concVars, mgrVars, running,
                   tick_failed, sm,
                   lockVars, guiVars>>

\* cleanup() once it has been called.
CleanupRest == CleanupProcessor \/ CleanupDevice \/ JoinDetection
               \/ CleanupAlive \/ JoinInput

\* The program starts while the driver holds the throttle key or holds no
\* key, and the key stays as it is.
InitLifecycle ==
    /\ InitProcessor
    /\ os_down \in {{}, {"w"}}
    /\ current_device = UNKNOWN
    /\ last_keyboard_time = 0
    /\ last_wheel_time = 0
    /\ device_changed_callbacks = <<"on_device_changed">>
    /\ detect_wake = StartTime
    /\ sample = NoSample
    /\ InitThreads
    /\ InitManager
    /\ InitLife
    /\ InitDeviceLock
    /\ InitGui
    /\ sm = NoSmoothing
    /\ procs = <<KeyboardProcessor(keyboard_config(mgr_config))>>

NextLifecycle ==
    \/ InputThread
    \/ DetectionThread
    \/ CleanupStart
    \/ CleanupRest

\* Every thread that can take a step is scheduled again; whether and when
\* cleanup() is called is up to the program's user.
SpecLifecycle ==
    /\ InitLifecycle
    /\ [][NextLifecycle]_vars
    /\ WF_vars(InputThread)
    /\ WF_vars(DetectionThread)
    /\ WF_vars(CleanupRest)

\* ------------------------------------------------- the device lock
\* "with self.device_lock" for a thread: threading.Lock is not re-entrant,
\* so the holder itself waits like any other thread.
device_lock_acquire(holder, thread) == holder = FREE

\* Callbacks that ask the manager for the device (get_current_device,
\* is_keyboard_mode or is_wheel_mode) while they run.
QueryingListeners == {"querying"}

LockThreads == {"input_thread", "detection_thread"}

\* _notify_device_changed: where the detection thread is after callback i.
after_callback(i) ==
    IF i < Len(device_changed_callbacks)
    THEN [next |-> i + 1, at |-> "notify"]
    ELSE [next |-> 0, at |-> "release"]

\* _device_detection_loop after its sleep: the activity checks, "with
\* self.device_lock", the choice of the device and its assignment.
DetectEnter ==
    /\ pc.detection_thread = "test"
    /\ now >= detect_wake
    /\ device_lock_acquire(device_lock, "detection_thread")
    /\ SampleEffect
    /\ device_lock' = "detection_thread"
    /\ notifying' = IF sample'.calls # <<>> THEN 1 ELSE 0
    /\ pc' = [pc EXCEPT !.detection_thread =
                 IF sample'.calls # <<>> THEN "notify" ELSE "release"]
    /\ UNCHANGED <<now, os_down, device_changed_callbacks, detect_wake,
                   procVars, concVars, mgrVars, running, tick_failed, sm,
                   device_read, guiVars>>

\* _notify_device_changed: a callback that only records the device runs and
\* returns (an exception it raises is caught and logged).
DetectCallback ==
    /\ pc.detection_thread = "notify"
    /\ device_changed_callbacks[notifying] \notin QueryingListeners
    /\ notifying' = after_callback(notifying).next
    /\ pc' = [pc EXCEPT !.detection_thread = after_callback(notifying).at]
    /\ UNCHANGED <<now, procVars, devVars, concVars, mgrVars, running,
                   tick_failed, sm, device_lock, device_read, guiVars>>

\* _notify_device_changed: a querying callback starts and calls
\* get_current_device().
DetectCallbackQuery ==
    /\ pc.detection_thread = "notify"
    /\ device_changed_callbacks[notifying] \in QueryingListeners
    /\ pc' = [pc EXCEPT !.detection_thread = "get_device"]
    /\ UNCHANGED <<now, procVars, devVars, concVars, mgrVars, running,
                   tick_failed, sm, lockVars, guiVars>>

\* _input_loop: device = self.device_manager.get_current_device()
InputGetDevice ==
    /\ pc.input_thread = "test"
    /\ pc' = [pc EXCEPT !.input_thread = "get_device"]
    /\ UNCHANGED <<now, procVars, devVars, concVars, mgrVars, running,
                   tick_failed, sm, lockVars, guiVars>>

\* get_current_device: "with self.device_lock" entered by thread t.
GetDeviceAcquire(t) ==
    /\ pc[t] = "get_device"
    /\ device_lock_acquire(device_lock, t)
    /\ device_lock' = t
    /\ pc' = [pc EXCEPT ![t] = "got_device"]
    /\ UNCHANGED <<now, procVars, devVars, concVars, mgrVars, running,
                   tick_failed, sm, notifying, device_read, guiVars>>

\* get_current_device: return self.current_device, leaving the lock; the
\* input loop goes on to its sleep, a callback returns to the notification.
GetDeviceReturn(t) ==
    /\ pc[t] = "got_device"
    /\ device_lock' = FREE
    /\ IF t = "detection_thread"
       THEN /\ notifying' = after_callback(notifying).next
            /\ pc' = [pc EXCEPT ![t] = after_callback(notifying).at]
            /\ device_read' = device_read
       ELSE /\ notifying' = notifying
            /\ pc' = [pc EXCEPT ![t] = "test"]
            /\ device_read' = current_device
    /\ UNCHANGED <<now, procVars, devVars, concVars, mgrVars, running,
                   tick_failed, sm, guiVars>>

\* _device_detection_loop: the end of the "with" block and time.sleep(0.1).
DetectRelease ==
    /\ pc.detection_thread = "release"
    /\ device_lock' = FREE
    /\ detect_wake' = now + PollInterval
    /\ pc' = [pc EXCEPT !.detection_thread = "test"]
    /\ UNCHANGED <<now, os_down, current_device, last_keyboard_time,
                   last_wheel_time, device_changed_callbacks, sample,
                   procVars, concVars, mgrVars, running, tick_failed, sm,
                   notifying, device_read, guiVars>>

\* The callbacks the program has registered: the controller's own, a
\* querying one, or both.
InitReentrant ==
    /\ InitProcessor
    /\ os_down \in {{}, {"w"}}
    /\ current_device = UNKNOWN
    /\ last_keyboard_time = 0
    /\ last_wheel_time = 0
    /\ device_changed_callbacks \in
          {<<"on_device_changed">>, <<"querying">>,
           <<"on_device_changed", "querying">>}
    /\ detect_wake = StartTime
    /\ sample = NoSample
    /\ InitThreads
    /\ InitManager
    /\ InitLife
    /\ InitDeviceLock
    /\ InitGui
    /\ sm = NoSmoothing
    /\ procs = <<NewProcessor(DefaultConfig)>>

NextReentrant ==
    \/ Advance(2)
    \/ DetectEnter
    \/ DetectCallback
    \/ DetectCallbackQuery
    \/ DetectRelease
    \/ InputGetDevice
    \/ \E t \in LockThreads : GetDeviceAcquire(t)
    \/ \E t \in LockThreads : GetDeviceReturn(t)

SpecReentrant == InitReentrant /\ [][NextReentrant]_vars

\* ----------------------------------------------------------- ThreadSync
\* self._task_queue.pop(): the newest task first.
pop_right(queue) ==
    [task |-> queue[Len(queue)], rest |-> SubSeq(queue, 1, Len(queue) - 1)]

\* self._task_queue.popleft()
popleft(queue) == [task |-> Head(queue), rest |-> Tail(queue)]

\* self._results[task_id] = value
store_result(results, task_id, value) ==
    [x \in DOMAIN results \cup {task_id} |->
        IF x = task_id THEN value ELSE results[x]]

\* self._results.pop(task_id)
pop_result(results, task_id) ==
    [x \in DOMAIN results \ {task_id} |-> results[x]]

\* run_on_main from thread t: task_id = threading.get_ident(); under the
\* lock the task is appended and the event cleared.
RunOnMainEnqueue(t, raises) ==
    /\ sync_th[t].pc = "idle"
    /\ sync_th[t].calls < MaxCalls
    /\ LET task == [id |-> t, call |-> sync_th[t].calls + 1, raises |-> raises]
       IN  /\ thread_sync' = [thread_sync EXCEPT
                                !.task_queue = Append(@, task),
                                !.result_ready = FALSE]
           /\ sync_th' = [sync_th EXCEPT ![t] =
                            [pc |-> "wait", calls |-> task.call, task |-> task,
                             returned |-> NoReturn]]
           /\ sync_log' = [sync_log EXCEPT !.enqueued = Append(@, task)]
    /\ UNCHANGED <<now, procVars, devVars, concVars, lifeVars, mgrVars, sm,
                   lockVars, sync_main, periodicVars, conv>>

\* run_on_main: self._result_ready.wait(timeout) returned True; the result
\* stored under task_id is popped and returned (raised if an exception),
\* or None is returned when there is none.
RunOnMainWake(t) ==
    /\ sync_th[t].pc = "wait"
    /\ thread_sync.result_ready
    /\ IF t \in DOMAIN thread_sync.results
       THEN /\ sync_th' = [sync_th EXCEPT
                             ![t].pc = "idle",
                             ![t].returned =
                                 [kind |-> "result",
                                  of |-> thread_sync.results[t].of,
                                  exc |-> thread_sync.results[t].exc]]
            /\ thread_sync' = [thread_sync EXCEPT
                                 !.results = pop_result(@, t)]
       ELSE /\ sync_th' = [sync_th EXCEPT
                             ![t].pc = "idle",
                             ![t].returned =
                                 [kind |-> "none", of |-> NoTask, exc |-> FALSE]]
            /\ thread_sync' = thread_sync
    /\ UNCHANGED <<now, procVars, devVars, concVars, lifeVars, mgrVars, sm,
                   lockVars, sync_main, sync_log, periodicVars, conv>>

\* run_on_main: the wait ran out with the event clear; TimeoutError.
RunOnMainTimeout(t) ==
    /\ sync_th[t].pc = "wait"
    /\ ~thread_sync.result_ready
    /\ sync_th' = [sync_th EXCEPT
                     ![t].pc = "idle",
                     ![t].returned =
                         [kind |-> "timeout", of |-> NoTask, exc |-> TRUE]]
    /\ UNCHANGED <<now, procVars, devVars, concVars, lifeVars, mgrVars, sm,
                   lockVars, thread_sync, sync_main, sync_log, periodicVars,
                   conv>>

\* The main thread calls process_tasks.
ProcessTasksCall ==
    /\ sync_main.pc = "idle"
    /\ sync_main' = [sync_main EXCEPT !.pc = "loop"]
    /\ UNCHANGED <<now, procVars, devVars, concVars, lifeVars, mgrVars, sm,
                   lockVars, thread_sync, sync_th, sync_log, periodicVars,
                   conv>>

\* process_tasks: under the lock, the queue is not empty and its first
\* task is taken.
ProcessPop ==
    /\ sync_main.pc = "loop"
    /\ thread_sync.task_queue # <<>>
    /\ thread_sync' = [thread_sync EXCEPT
                         !.task_queue = popleft(@).rest]
    /\ sync_main' = [pc |-> "run", task |-> popleft(thread_sync.task_queue).task]
    /\ UNCHANGED <<now, procVars, devVars, concVars, lifeVars, mgrVars, sm,
                   lockVars, sync_th, sync_log, periodicVars, conv>>

\* process_tasks: "if not self._task_queue: break".
ProcessReturn ==
    /\ sync_main.pc = "loop"
    /\ thread_sync.task_queue = <<>>
    /\ sync_main' = [pc |-> "idle", task |-> NoTask]
    /\ UNCHANGED <<now, procVars, devVars, concVars, lifeVars, mgrVars, sm,
                   lockVars, thread_sync, sync_th, sync_log, periodicVars,
                   conv>>

\* process_tasks: the task runs; its return value, or the exception it
\* raised, is stored under its task_id.
ProcessRun ==
    /\ sync_main.pc = "run"
    /\ thread_sync' = [thread_sync EXCEPT
                         !.results = store_result(@, sync_main.task.id,
                             [of |-> sync_main.task,
                              exc |-> sync_main.task.raises])]
    /\ sync_log' = [sync_log EXCEPT !.executed = Append(@, sync_main.task)]
    /\ sync_main' = [sync_main EXCEPT !.pc = "set"]
    /\ UNCHANGED <<now, procVars, devVars, concVars, lifeVars, mgrVars, sm,
                   lockVars, sync_th, periodicVars, conv>>

\* process_tasks: self._result_ready.set()
ProcessSet ==
    /\ sync_main.pc = "set"
    /\ thread_sync' = [thread_sync EXCEPT !.result_ready = TRUE]
    /\ sync_main' = [sync_main EXCEPT !.pc = "loop"]
    /\ UNCHANGED <<now, procVars, devVars, concVars, lifeVars, mgrVars, sm,
                   lockVars, sync_th, sync_log, periodicVars, conv>>

\* ThreadSync.clear_tasks, called once by some thread.
ClearTasks ==
    /\ ~sync_log.cleared
    /\ thread_sync' = [task_queue |-> <<>>, results |-> <<>>,
                       result_ready |-> TRUE]
    /\ sync_log' = [sync_log EXCEPT !.cleared = TRUE]
    /\ UNCHANGED <<now, procVars, devVars, concVars, lifeVars, mgrVars, sm,
                   lockVars, sync_th, sync_main, periodicVars, conv>>

InitSyncSpec ==
    /\ InitProcessor
    /\ InitDevice
    /\ InitThreads
    /\ InitManager
    /\ InitLife
    /\ InitDeviceLock
    /\ InitGui
    /\ sm = NoSmoothing
    /\ procs = <<NewProcessor(DefaultConfig)>>

NextSync ==
    \/ \E t \in Callers, raises \in BOOLEAN : RunOnMainEnqueue(t, raises)
    \/ \E t \in Callers : RunOnMainWake(t)
    \/ \E t \in Callers : RunOnMainTimeout(t)
    \/ ProcessTasksCall
    \/ ProcessPop
    \/ ProcessReturn
    \/ ProcessRun
    \/ ProcessSet
    \/ ClearTasks

SpecSync == InitSyncSpec /\ [][NextSync]_vars

\* ------------------------------------------------------ PeriodicUpdates
\* PeriodicUpdates._should_continue (the window exists throughout).
should_continue(p) == p.updates_active

\* The two chains: _schedule_visualization_update, _schedule_process_check.
Chains == {"visualization", "process_check"}

\* The callbacks of one chain that are scheduled or running.
chain_count(kind) == tk[kind] + (IF tk.callback = kind THEN 1 ELSE 0)

\* start(): "if self._update_initialized: return", read without the lock.
StartTest(t) ==
    /\ periodic_th[t] = "idle"
    /\ periodic_th' = [periodic_th EXCEPT ![t] =
           IF periodic.update_initialized THEN "idle" ELSE "tested"]
    /\ UNCHANGED <<now, procVars, devVars, concVars, lifeVars, mgrVars, sm,
                   lockVars, syncVars, periodic, tk, conv>>

\* start(): under the lock, both flags are set.
StartSet(t) ==
    /\ periodic_th[t] = "tested"
    /\ periodic' = [update_initialized |-> TRUE, updates_active |-> TRUE]
    /\ periodic_th' = [periodic_th EXCEPT ![t] = "visualization"]
    /\ UNCHANGED <<now, procVars, devVars, concVars, lifeVars, mgrVars, sm,
                   lockVars, syncVars, tk, conv>>

\* start(): the first call of each _schedule_... function: its work is
\* done and, while updates are active, its next run is scheduled.
StartSchedule(t, kind) ==
    /\ periodic_th[t] = kind
    /\ tk' = IF should_continue(periodic)
             THEN [tk EXCEPT ![kind] = @ + 1,
                             !.ran_after_stop = @ \/ tk.stopped]
             ELSE tk
    /\ periodic_th' = [periodic_th EXCEPT ![t] =
           IF kind = "visualization" THEN "process_check" ELSE "idle"]
    /\ UNCHANGED <<now, procVars, devVars, concVars, lifeVars, mgrVars, sm,
                   lockVars, syncVars, periodic, conv>>

\* The Tk loop runs a scheduled callback: "if not self._should_continue():
\* return".
CallbackTest(kind) ==
    /\ tk.callback = "none"
    /\ tk[kind] > 0
    /\ tk' = [tk EXCEPT ![kind] = @ - 1,
                        !.callback = IF should_continue(periodic)
                                     THEN kind ELSE "none"]
    /\ UNCHANGED <<now, procVars, devVars, concVars, lifeVars, mgrVars, sm,
                   lockVars, syncVars, periodic, periodic_th, conv>>

\* The callback does its work (gui.update_visualization() or the process
\* check) and, if updates are still active, schedules itself again.
CallbackRun(kind) ==
    /\ tk.callback = kind
    /\ tk' = [tk EXCEPT
                ![kind] = IF should_continue(periodic) THEN @ + 1 ELSE @,
                !.callback = "none",
                !.ran_after_stop = @ \/ tk.stopped]
    /\ UNCHANGED <<now, procVars, devVars, concVars, lifeVars, mgrVars, sm,
                   lockVars, syncVars, periodic, periodic_th, conv>>

\* PeriodicUpdates.stop, called once on updates that were started.
Stop ==
    /\ periodic.update_initialized
    /\ ~tk.stopped
    /\ periodic' = [periodic EXCEPT !.updates_active = FALSE]
    /\ tk' = [tk EXCEPT !.stopped = TRUE]
    /\ UNCHANGED <<now, procVars, devVars, concVars, lifeVars, mgrVars, sm,
                   lockVars, syncVars, periodic_th, conv>>

InitPeriodicSpec ==
    /\ InitProcessor
    /\ InitDevice
    /\ InitThreads
    /\ InitManager
    /\ InitLife
    /\ InitDeviceLock
    /\ InitGui
    /\ sm = NoSmoothing
    /\ procs = <<NewProcessor(DefaultConfig)>>

NextPeriodic ==
    \/ \E t \in Callers : StartTest(t)
    \/ \E t \in Callers : StartSet(t)
    \/ \E t \in Callers, kind \in Chains : StartSchedule(t, kind)
    \/ \E kind \in Chains : CallbackTest(kind)
    \/ \E kind \in Chains : CallbackRun(kind)
    \/ Stop

SpecPeriodic == InitPeriodicSpec /\ [][NextPeriodic]_vars

\* -------------------------------------------------------- axis conversion
\* InputManager._convert_to_axis_values: CENTER = 32768 // 2
CENTER == 16384
MAX_AXIS == 32767

\* Python's int() of the quotient n / d (d > 0): truncation toward zero.
int(n, d) == IF n >= 0 THEN n \div d ELSE -((-n) \div d)

\* InputManager._convert_to_axis_values, on inputs in units of 1/One.
convert_to_axis_values_unclamped(inputs) ==
    [steering |-> int(CENTER * One + inputs.steering * CENTER, One),
     throttle |-> int(inputs.throttle * MAX_AXIS, One),
     brake    |-> int(inputs.brake * MAX_AXIS, One)]

convert_to_axis_values(inputs) ==
    [steering |-> Max(0, Min(MAX_AXIS,
                     int(CENTER * One + inputs.steering * CENTER, One))),
     throttle |-> int(inputs.throttle * MAX_AXIS, One),
     brake    |-> int(inputs.brake * MAX_AXIS, One)]

\* The inputs get_inputs() can hand over: steering in [-1, 1], pedals in
\* [0, 1].
SteeringInputs == {-One, 1 - One, -1, 0, One \div 2, One - 1, One}
PedalInputs == {0, 1, One - 1, One}

\* _process_keyboard_input: axis_values = self._convert_to_axis_values(inputs)
Convert(inputs) ==
    /\ conv' = [previous |-> conv.current,
                current  |-> [made |-> TRUE, inputs |-> inputs,
                              axis_values |-> convert_to_axis_values(inputs)]]
    /\ UNCHANGED <<now, procVars, devVars, concVars, lifeVars, mgrVars, sm,
                   lockVars, syncVars, periodicVars>>

InitConvert ==
    /\ InitProcessor
    /\ InitDevice
    /\ InitThreads
    /\ InitManager
    /\ InitLife
    /\ InitDeviceLock
    /\ InitGui
    /\ sm = NoSmoothing
    /\ procs = <<NewProcessor(DefaultConfig)>>

NextConvert ==
    \E s \in SteeringInputs, t \in PedalInputs, b \in PedalInputs :
        Convert([steering |-> s, throttle |-> t, brake |-> b])

SpecConvert == InitConvert /\ [][NextConvert]_vars

\* ------------------------------------------------------------- claims

\* C1: after every update(dt), dt >= 0, under any interleaving of key events
\* and ticks, steering is in [-1, 1] and throttle and brake are in [0, 1].
C1_AxisBounds ==
    /\ procs[1].steering_value \in (-One)..One
    /\ procs[1].throttle_value \in 0..One
    /\ procs[1].brake_value \in 0..One

\* C1 witness: a tick has just run with a steer key and the throttle key
\* held long enough that both axes are far from zero.
C1_Witness ==
    /\ last.op = "update"
    /\ procs[1].steering_value < -5000
    /\ procs[1].throttle_value > 5000

\* C2: after every completed sampling step taken at time now, current_device
\* is KEYBOARD exactly when keyboard_active and not wheel_active,
\* STEERING_WHEEL exactly when wheel_active and not keyboard_active, and
\* UNKNOWN otherwise, where active means (now - last time) < threshold;
\* before the first step it is UNKNOWN.
C2_ArbitrationRule ==
    IF sample.taken
    THEN LET keyboard_active == (sample.t - last_keyboard_time) < DetectionThreshold
             wheel_active == (sample.t - last_wheel_time) < DetectionThreshold
         IN  /\ current_device = KEYBOARD <=> (keyboard_active /\ ~wheel_active)
             /\ current_device = STEERING_WHEEL <=> (wheel_active /\ ~keyboard_active)
             /\ current_device = UNKNOWN <=> (keyboard_active <=> wheel_active)
    ELSE current_device = UNKNOWN

\* C2 witness: a sampling step taken exactly one threshold after the last
\* keyboard activity has left the device UNKNOWN.
C2_Witness ==
    /\ sample.taken
    /\ sample.t - last_keyboard_time = DetectionThreshold
    /\ sample.pre_device = KEYBOARD
    /\ current_device = UNKNOWN

\* C3: in a sampling step the registered listeners are invoked if and only
\* if the computed device differs from current_device; then each registered
\* listener is invoked exactly once, in order, with the new device.
C3_EdgeTriggered ==
    sample.taken =>
        IF sample.new_device # sample.pre_device
        THEN /\ Len(sample.calls) = Len(sample.callbacks)
             /\ \A i \in 1..Len(sample.callbacks) :
                   /\ sample.calls[i].listener = sample.callbacks[i]
                   /\ sample.calls[i].device = sample.new_device
        ELSE sample.calls = <<>>

\* C3 witness: a step that computed the device it already had, with two
\* listeners registered, one of which raises.
C3_Witness ==
    /\ sample.taken
    /\ sample.new_device = KEYBOARD
    /\ sample.pre_device = KEYBOARD
    /\ Len(sample.callbacks) = 2
    /\ \E i \in 1..2 : sample.callbacks[i] \in RaisingListeners

\* C4: a key-down event for a key that is already pressed leaves pressed,
\* press_time and hold_duration of that key as they were.
C4_KeyDownIdempotent ==
    (/\ last.op = "key_pressed"
     /\ last.key \in DOMAIN last.pre.key_states
     /\ last.pre.key_states[last.key].pressed)
    => LET before == last.pre.key_states[last.key]
           after == procs[1].key_states[last.key]
       IN  /\ after.pressed = before.pressed
           /\ after.press_time = before.press_time
           /\ after.hold_duration = before.hold_duration

\* C4 witness: a key-down event arrived for a key pressed at an earlier time.
C4_Witness ==
    /\ last.op = "key_pressed"
    /\ last.key \in DOMAIN last.pre.key_states
    /\ last.pre.key_states[last.key].pressed
    /\ last.pre.key_states[last.key].press_time < last.t

\* C5: a key-up event for a pressed key sets pressed = false,
\* release_time = now and hold_duration = release_time - press_time; for a
\* key that is not pressed it leaves the key's state as it was.
C5_KeyUpOnlyWhenPressed ==
    (/\ last.op = "key_released"
     /\ last.key \in DOMAIN last.pre.key_states)
    => LET before == last.pre.key_states[last.key]
           after == procs[1].key_states[last.key]
       IN  IF before.pressed
           THEN /\ ~after.pressed
                /\ after.release_time = last.t
                /\ after.hold_duration = after.release_time - before.press_time
                /\ after.press_time = before.press_time
           ELSE after = before

\* C6: with both assists enabled, anti-spin scales throttle by
\* (1 - spin_prevention) exactly when the steering magnitude before either
\* assist ran exceeds 0.6 and throttle exceeds 0.8.
C6_AntiSpinReadsPreAssistSteering ==
    (/\ last.op = "apply_assists"
     /\ last.pre.config.counter_steer_assist
     /\ last.pre.config.anti_spin_assist)
    => procs[1].throttle_value =
          IF Abs(last.pre.steering_value) > AntiSpinSteeringMin
             /\ last.pre.throttle_value > AntiSpinThrottleMin
          THEN MulFix(last.pre.throttle_value, One - last.pre.config.spin_prevention)
          ELSE last.pre.throttle_value

\* C7: with counter-steer enabled, the assist step replaces steering by
\* steering * (1 - counter_steer_strength) if and only if |steering| > 0.8
\* and throttle > 0.7; (0.9, 0.75) gives steering 0.45 and leaves throttle,
\* (0.7, 0.85) leaves steering and gives throttle 0.34.
C7_CounterSteerRule ==
    (/\ last.op = "apply_assists"
     /\ last.pre.config.counter_steer_assist)
    => LET s == last.pre.steering_value
           thr == last.pre.throttle_value
           defaults ==
               /\ last.pre.config.anti_spin_assist
               /\ last.pre.config.counter_steer_strength = 5000
               /\ last.pre.config.spin_prevention = 6000
       IN  /\ procs[1].steering_value =
                IF Abs(s) > 8000 /\ thr > 7000
                THEN MulFix(s, One - last.pre.config.counter_steer_strength)
                ELSE s
           /\ (defaults /\ s = 9000 /\ thr = 7500)
                => procs[1].steering_value = 4500 /\ procs[1].throttle_value = 7500
           /\ (defaults /\ s = 7000 /\ thr = 8500)
                => procs[1].steering_value = 7000 /\ procs[1].throttle_value = 3400

\* C7 witness: the assist step has run on steering 0.9, throttle 0.75 with
\* the default strengths and reduced the steering.
C7_Witness ==
    /\ last.op = "apply_assists"
    /\ last.pre.config.counter_steer_assist
    /\ last.pre.config.anti_spin_assist
    /\ last.pre.config.counter_steer_strength = 5000
    /\ last.pre.steering_value = 9000
    /\ last.pre.throttle_value = 7500
    /\ procs[1].steering_value # last.pre.steering_value

\* C8: get_inputs(), called at any moment, returns a triple equal to the
\* values committed at the end of some completed tick (or the initial zeros):
\* once no tick is in flight, what it returned is one of the committed triples.
C8_NoTornReads ==
    (\A t \in Workers : th[t].op # "update") => read_result \in committed

\* C9: a shaping tick that runs while update_key_bindings or set_config
\* replaces the processor uses one processor in full: the processor whose
\* update ran is the processor whose axes the tick reads.
C9_AtomicReconfiguration ==
    tick_log.done => tick_log.updated = tick_log.read

\* C10: for one KeyboardProcessor the bodies of the key-press handler, the
\* key-release handler and the update tick never run concurrently with one
\* another or with themselves.
C10_MutualExclusion ==
    LET inside(t) == th[t].pc \in {"body", "pedals", "assists", "release"}
    IN  /\ \A t, u \in Workers : (inside(t) /\ inside(u)) => t = u
        /\ \A t \in Workers : inside(t) => lock[1] = t

\* C10 witness: a tick is between its steering and pedal steps while a key
\* handler called on the other thread waits for the lock.
C10_Witness ==
    \E t, u \in Workers :
        /\ th[t].pc = "pedals"
        /\ th[u].pc = "acquire"
        /\ th[u].op = "key_released"

\* C11: when a device change is notified and a registered listener raises,
\* every registered listener is still invoked for that change, current_device
\* holds the new device afterwards, and the detection loop goes to its
\* ordinary sleep before the next sample (not to the error back-off).
C11_ListenerIsolation ==
    [][(/\ sample' # sample
        /\ \E i \in 1..Len(sample'.callbacks) :
               sample'.callbacks[i] \in RaisingListeners
        /\ sample'.new_device # sample'.pre_device)
       => /\ Len(sample'.calls) = Len(sample'.callbacks)
          /\ \A i \in 1..Len(sample'.callbacks) :
                sample'.calls[i].listener = sample'.callbacks[i]
          /\ current_device' = sample'.new_device
          /\ detect_wake' = now + PollInterval]_vars

\* C11 witness: a change to KEYBOARD was notified to a raising listener
\* first and to a well-behaved listener after it.
C11_Witness ==
    /\ sample.taken
    /\ Len(sample.calls) = 2
    /\ sample.calls[1].raised
    /\ ~sample.calls[2].raised
    /\ sample.new_device = KEYBOARD
    /\ current_device = KEYBOARD

\* C12: with keyboard activity last observed at t0 and no wheel activity, a
\* sample at t with t - t0 < detection_threshold leaves the device KEYBOARD
\* and notifies nobody; the first sample with t - t0 >= detection_threshold
\* moves the device to UNKNOWN and notifies each listener once; a later
\* sample without activity notifies nobody.
C12_ThresholdHoldAndExpiry ==
    (sample.taken /\ ~sample.keyboard_seen) =>
        LET expired == sample.t - last_keyboard_time >= DetectionThreshold
        IN  /\ (sample.pre_device = KEYBOARD /\ ~expired) =>
                   (current_device = KEYBOARD /\ sample.calls = <<>>)
            /\ (sample.pre_device = KEYBOARD /\ expired) =>
                   /\ current_device = UNKNOWN
                   /\ Len(sample.calls) = Len(sample.callbacks)
                   /\ \A i \in 1..Len(sample.calls) :
                         sample.calls[i].device = UNKNOWN
            /\ (sample.pre_device = UNKNOWN /\ expired) =>
                   (current_device = UNKNOWN /\ sample.calls = <<>>)

\* C12 witness: the device was KEYBOARD, no sample was taken until 0.6 s
\* after the last keyboard activity, and that sample moved it to UNKNOWN
\* with one notification to the one listener.
C12_Witness ==
    /\ sample.taken
    /\ ~sample.keyboard_seen
    /\ sample.pre_device = KEYBOARD
    /\ sample.t - last_keyboard_time = DetectionThreshold + 1
    /\ current_device = UNKNOWN
    /\ Len(sample.calls) = 1

\* C15: a sampling step in which the wheel-polling call raises still
\* computes the device with the wheel counted as not active: a step that
\* observed keyboard activity ends with the device KEYBOARD, and with every
\* listener notified when the device was not KEYBOARD before.
C15_WheelFailureIsWheelInactive ==
    (sample.t > 0 /\ sample.keyboard_seen) =>
        /\ current_device = KEYBOARD
        /\ sample.pre_device # KEYBOARD =>
              Len(sample.calls) = Len(sample.callbacks)

\* C13: after an iteration of the shaping loop has raised, the loop runs
\* an iteration again unless it has been stopped; one failure does not end
\* the loop.
C13_FailedTickNeverHalts ==
    tick_failed ~> (pc.input_thread = "body" \/ ~running.InputManager)

\* C13 witness: the loop is in an iteration again after one that raised to
\* the loop's except branch, and nobody has stopped it.
C13_Witness ==
    /\ tick_failed
    /\ pc.input_thread = "body"
    /\ running.InputManager
    /\ pc.main = "idle"

\* C16: once cleanup() has cleared a loop's running flag the loop starts no
\* iteration at its next test of the flag and its thread ends; cleanup()
\* itself returns, also when a loop has not ended yet.
C16_CooperativeCancellation ==
    /\ [][/\ (/\ pc.input_thread = "test"
              /\ ~running.InputManager
              /\ pc'.input_thread # "test") => pc'.input_thread = "done"
          /\ (/\ pc.detection_thread = "test"
              /\ ~running.InputDeviceManager
              /\ pc'.detection_thread # "test")
             => pc'.detection_thread = "done"]_vars
    /\ pc.main # "idle" ~> (/\ pc.main = "returned"
                            /\ pc.input_thread = "done"
                            /\ pc.detection_thread = "done")

\* C16 witness: cleanup() has returned from its joins while both loops were
\* still asleep in an iteration.
C16_Witness ==
    /\ pc.main = "returned"
    /\ pc.input_thread = "sleep"
    /\ pc.detection_thread = "sleep"
    /\ ~running.InputManager
    /\ ~running.InputDeviceManager

\* C14: when update(dt) raises partway through, the steering, throttle and
\* brake values readable afterwards equal the values from before that tick.
C14_FailedTickHoldsOutput ==
    last.op = "update_raised" => get_inputs(procs[1]) = get_inputs(last.pre)

\* C17: the axes update(dt) produces depend on the state before the tick,
\* dt and the configuration only: the same tick run at a later wall-clock
\* time gives the same steering, throttle and brake.
C17_Determinism ==
    last.op = "update" =>
        \A t \in last.t..(StartTime + MaxTime) :
            get_inputs(update(last.pre, last.dt, t)) = get_inputs(procs[1])

\* C18: a raw steering target whose magnitude is below the deadzone (0.05)
\* is replaced by 0 before smoothing: the tick smooths steering toward 0.
C18_Deadzone ==
    LET pre == last.pre
        left_value == calculate_key_value(pre, pre.config.left_key, last.t)
        right_value == calculate_key_value(pre, pre.config.right_key, last.t)
        raw == right_value - left_value
        deadzone == 500
    IN  (/\ last.op = "update"
         /\ pre.config.gradual_turn
         /\ left_value > 0 /\ right_value > 0
         /\ Abs(raw) < deadzone
         /\ Abs(pre.steering_value) <= CounterSteerSteeringMin)
        => procs[1].steering_value =
              smooth_value(pre.steering_value, 0, pre.steering_smoothing,
                           last.dt)

\* C19: with the counter-steer and the anti-spin flag both off, the assist
\* step leaves steering, throttle and brake as the shaping step produced
\* them, whatever their values.
C19_DisabledAssistsPassThrough ==
    (/\ last.op = "apply_assists"
     /\ ~last.pre.config.counter_steer_assist
     /\ ~last.pre.config.anti_spin_assist)
    => get_inputs(procs[1]) = get_inputs(last.pre)

\* C19 witness: the assist step has run with both flags off on steering 0.9
\* and throttle 0.9, above all four thresholds, strengths at their defaults.
C19_Witness ==
    /\ last.op = "apply_assists"
    /\ ~last.pre.config.counter_steer_assist
    /\ ~last.pre.config.anti_spin_assist
    /\ last.pre.config.counter_steer_strength = DefaultCounterSteerStrength
    /\ last.pre.config.spin_prevention = DefaultSpinPrevention
    /\ last.pre.steering_value = 9000
    /\ last.pre.throttle_value = 9000
    /\ procs[1].steering_value = 9000
    /\ procs[1].throttle_value = 9000

\* C20: once the manager is constructed or a reconfiguration has finished,
\* the key-state table of its processor holds one KeyState for each key the
\* manager's bindings give to steer-left, steer-right, throttle and brake,
\* and the processor reads its axes from those keys.
C20_BindingsDetermineKeys ==
    rc = "idle" =>
        LET b == mgr_config.key_bindings
            p == procs[keyboard_processor]
        IN  /\ DOMAIN p.key_states =
                  {b.steer_left, b.steer_right, b.throttle, b.brake}
            /\ p.config.left_key = b.steer_left
            /\ p.config.right_key = b.steer_right
            /\ p.config.accelerate_key = b.throttle
            /\ p.config.brake_key = b.brake

\* C21: in every reachable state of every key hold_duration >= 0 and, once
\* the key has been pressed and released, press_time <= release_time.  A key
\* has been pressed and released when it is not pressed and has a press
\* time, and when it has just been pressed again from such a state.
C21_KeyStateInvariant ==
    \A k \in DOMAIN procs[1].key_states :
        LET state == procs[1].key_states[k]
            held_before(st) == ~st.pressed /\ st.press_time > 0
        IN  /\ state.hold_duration >= 0
            /\ held_before(state) => state.press_time <= state.release_time
            /\ (/\ last.op = "key_pressed"
                /\ last.key = k
                /\ held_before(last.pre.key_states[k]))
               => state.press_time <= state.release_time

\* C21 as amended: in every reachable state of every key hold_duration >= 0
\* and, whenever the key is not pressed, press_time <= release_time.
C21_KeyStateInvariantReleased ==
    \A k \in DOMAIN procs[1].key_states :
        LET state == procs[1].key_states[k]
        IN  /\ state.hold_duration >= 0
            /\ ~state.pressed => state.press_time <= state.release_time

\* C21 witness: a key that was pressed, held for a while and released.
C21_Witness ==
    \E k \in DOMAIN procs[1].key_states :
        LET state == procs[1].key_states[k]
        IN  /\ ~state.pressed
            /\ state.press_time >= StartTime
            /\ state.release_time > state.press_time
            /\ state.hold_duration = state.release_time - state.press_time
            /\ last.op = "key_released"

\* C22: a press or release event for a key that is not in the key-state
\* table adds no entry to the table and leaves every KeyState and every axis
\* value as it was.
C22_UnknownKeyNoOp ==
    (/\ last.op \in {"key_pressed", "key_released"}
     /\ last.key \notin DOMAIN last.pre.key_states)
    => /\ DOMAIN procs[1].key_states = DOMAIN last.pre.key_states
       /\ procs[1].key_states = last.pre.key_states
       /\ get_inputs(procs[1]) = get_inputs(last.pre)

\* C22 witness: a press of the unbound key "x" arrived while "a" was held.
C22_Witness ==
    /\ last.op = "key_pressed"
    /\ last.key = "x"
    /\ "x" \notin DOMAIN procs[1].key_states
    /\ procs[1].key_states["a"].pressed

\* C23: a strength supplied outside [0, 1] is replaced by its default: the
\* assist step gives what it gives under the defaults, and the axes stay
\* within their bounds.
C23_OutOfRangeUsesDefault ==
    last.op = "apply_assists" =>
        LET c == last.pre.config
            in_range(x) == 0 <= x /\ x <= One
            effective ==
                [c EXCEPT
                   !.counter_steer_strength =
                       IF in_range(@) THEN @ ELSE DefaultCounterSteerStrength,
                   !.spin_prevention =
                       IF in_range(@) THEN @ ELSE DefaultSpinPrevention]
        IN  /\ get_inputs(procs[1]) =
                  get_inputs(apply_assists([last.pre EXCEPT !.config = effective]))
            /\ Abs(procs[1].steering_value) <= One
            /\ 0 <= procs[1].throttle_value
            /\ procs[1].throttle_value <= One

\* C24: a keyboard-shaping tick starts only in an iteration that reads
\* KEYBOARD, so after a change away from KEYBOARD only the tick already in
\* progress still runs; and an iteration that starts while the device is
\* KEYBOARD shapes.
C24_OneStaleTick ==
    [][/\ (loop.pc = "idle" /\ loop'.pc = "update")
            => current_device = KEYBOARD
       /\ (loop.pc = "idle" /\ nticks' # nticks)
            => current_device = KEYBOARD
       /\ (/\ loop.pc = "idle"
           /\ current_device = KEYBOARD
           /\ last_update' # last_update)
            => (loop'.pc = "update" /\ loop'.dt = now - last_update)]_vars

\* The stale tick: the device left KEYBOARD while a tick was in progress.
C24_Witness ==
    /\ loop.pc = "update"
    /\ sample.taken
    /\ sample.pre_device = KEYBOARD
    /\ current_device = UNKNOWN

\* C25: for smoothing in (0, 1) and dt > 0 a smoothing step returns a value
\* between current and target, so the distance to a constant target never
\* grows from tick to tick.
C25_NoOvershoot ==
    sm.ticks > 0 =>
        /\ \/ (sm.previous <= sm.current /\ sm.current <= sm.target)
           \/ (sm.target <= sm.current /\ sm.current <= sm.previous)
        /\ Abs(sm.target - sm.current) <= Abs(sm.target - sm.previous)

\* A step that moved current strictly between where it was and the target.
C25_Witness ==
    /\ sm.ticks > 0
    /\ sm.previous < sm.current
    /\ sm.current < sm.target

\* C26: with a constant target and a fixed dt > 0, current equals the target
\* after finitely many ticks: it is set to the target on the tick that starts
\* within 0.001 of it, and stays equal on every later tick.
C26_FiniteConvergence ==
    /\ sm.ticks = MaxSmoothTicks => sm.current = sm.target
    /\ (sm.ticks > 0 /\ Abs(sm.target - sm.previous) < Epsilon)
         => sm.current = sm.target

\* A run that started a whole range away, snapped, and then stayed.
C26_Witness ==
    /\ sm.ticks = MaxSmoothTicks
    /\ sm.previous = sm.target
    /\ sm.current = sm.target
    /\ sm.target = One
    /\ sm.smoothing = SteeringSmoothing
    /\ sm.delta_time = 1

\* C27: a tick blends steering toward 0 exactly when return-to-center is
\* enabled and neither steering key is pressed at that tick, however recent
\* the press; throttle and brake are never blended.
C27_ReturnToCenterGate ==
    last.op = "update" =>
        LET pre == last.pre
            c == pre.config
            held == \/ pre.key_states[c.left_key].pressed
                    \/ pre.key_states[c.right_key].pressed
            target_steering ==
                calculate_key_value(pre, c.right_key, last.t)
                    - calculate_key_value(pre, c.left_key, last.t)
            smoothed ==
                IF c.gradual_turn
                THEN smooth_value(pre.steering_value, target_steering,
                                  pre.steering_smoothing, last.dt)
                ELSE target_steering
            steered ==
                IF c.return_to_center /\ ~held
                THEN smooth_value(smoothed, 0, c.center_speed, last.dt)
                ELSE smoothed
        IN  procs[1] =
                apply_assists(update_pedals(
                    [pre EXCEPT !.steering_value = steered], last.dt, last.t))

\* C28: with both steering keys released and return-to-center enabled at the
\* default center speed, every tick moves steering toward 0 and never past
\* it, and a tick of at least 0.1 s (six ticks at 60 Hz) leaves it within
\* 0.01 of 0, where later ticks keep it.
C28_ReturnToCenterConverges ==
    LET pre == last.pre
    IN  (/\ last.op = "update"
         /\ pre.config = DefaultConfig
         /\ ~pre.key_states["a"].pressed
         /\ ~pre.key_states["d"].pressed)
        => /\ Abs(procs[1].steering_value) <= Abs(pre.steering_value)
           /\ procs[1].steering_value * pre.steering_value >= 0
           /\ last.dt > 0 => 100 * Abs(procs[1].steering_value) <= One

\* A tick from steering = 1.0 that ended within 0.01 of the centre.
C28_Witness ==
    /\ last.op = "update"
    /\ last.dt > 0
    /\ last.pre.config = DefaultConfig
    /\ last.pre.steering_value = One
    /\ ~last.pre.key_states["a"].pressed
    /\ ~last.pre.key_states["d"].pressed
    /\ procs[1].steering_value < One
    /\ 100 * procs[1].steering_value <= One

\* C29: with gradual turn disabled the steering step of a tick leaves
\* steering at the raw target raw(right) - raw(left) whatever it was before,
\* and with progressive acceleration disabled the pedal step leaves throttle
\* and brake at their raw targets; the tick ends with the assists applied
\* to these values.
C29_SmoothingBypass ==
    last.op = "update" =>
        LET pre == last.pre
            c == pre.config
            raw(key) == calculate_key_value(pre, key, last.t)
            shaped == update_pedals(update_steering(pre, last.dt, last.t),
                                    last.dt, last.t)
            direct ==
                [shaped EXCEPT
                   !.steering_value =
                       IF c.gradual_turn THEN @
                       ELSE raw(c.right_key) - raw(c.left_key),
                   !.throttle_value =
                       IF c.progressive_acceleration THEN @
                       ELSE raw(c.accelerate_key),
                   !.brake_value =
                       IF c.progressive_acceleration THEN @
                       ELSE raw(c.brake_key)]
        IN  /\ procs[1] = apply_assists(direct)
            /\ (/\ ~c.gradual_turn
                /\ Abs(raw(c.right_key) - raw(c.left_key))
                      <= CounterSteerSteeringMin)
                 => procs[1].steering_value = raw(c.right_key) - raw(c.left_key)
            /\ ~c.progressive_acceleration
                 => procs[1].brake_value = raw(c.brake_key)
            /\ (/\ ~c.progressive_acceleration
                /\ raw(c.accelerate_key) <= AntiSpinThrottleMin)
                 => procs[1].throttle_value = raw(c.accelerate_key)

\* A tick that moved throttle from an earlier value straight to a different
\* raw target, and steering straight back to 0.
C29_Witness ==
    /\ last.op = "update"
    /\ last.pre.config = BypassConfig
    /\ last.pre.throttle_value = 5000
    /\ last.pre.steering_value = 9000
    /\ last.pre.key_states["w"].pressed
    /\ procs[1].throttle_value > 5000
    /\ procs[1].throttle_value
         = calculate_key_value(last.pre, "w", last.t)
    /\ procs[1].steering_value = 0

\* C30: the raw value of a key held for h >= 0 lies in [0, 1), does not
\* decrease while the key stays held, and is 0 at h = 0; a key that is not
\* pressed contributes 0.
C30_RawHoldCurve ==
    last.op = "update" =>
        LET state == last.pre.key_states["w"]
            hold_time == last.t - state.press_time
            raw_value == procs[1].throttle_value
        IN  /\ state.pressed => (0 <= raw_value /\ raw_value < One)
            /\ (state.pressed /\ hold_time = 0) => raw_value = 0
            /\ (state.pressed /\ nevents = 1)
                 => last.pre.throttle_value <= raw_value
            /\ ~state.pressed => raw_value = 0

\* C30 with the closed interval: the raw value of a key held for h >= 0 lies
\* in [0, 1], does not decrease while the key stays held, and is 0 at h = 0;
\* a key that is not pressed contributes 0.
C30_RawHoldCurveClosed ==
    last.op = "update" =>
        LET state == last.pre.key_states["w"]
            hold_time == last.t - state.press_time
            raw_value == procs[1].throttle_value
        IN  /\ state.pressed => (0 <= raw_value /\ raw_value <= One)
            /\ (state.pressed /\ hold_time = 0) => raw_value = 0
            /\ (state.pressed /\ nevents = 1)
                 => last.pre.throttle_value <= raw_value
            /\ ~state.pressed => raw_value = 0

\* Two ticks in one long hold: the raw value rose from inside (0, 1) to 1.
C30_Witness ==
    /\ last.op = "update"
    /\ last.pre.key_states["w"].pressed
    /\ nevents = 1
    /\ 0 < last.pre.throttle_value
    /\ last.pre.throttle_value < One
    /\ procs[1].throttle_value = One

\* C31: a thread that waits for the device lock never waits for a holder
\* that is itself waiting for that lock, so a listener that queries the
\* device from inside its callback returns, the sampling loop goes on and
\* other callers of get_current_device() get the lock in the end.
C31_ReentrantListenerReturns ==
    \A t \in LockThreads :
        pc[t] = "get_device"
            => (device_lock = FREE \/ pc[device_lock] # "get_device")

\* C32: with both assists enabled at their default strengths, the axes after
\* the assist step never have |steering| > 0.8 together with throttle > 0.7,
\* nor |steering| > 0.6 together with throttle > 0.8, and brake is as it was.
C32_PostAssistExclusion ==
    (/\ last.op = "apply_assists"
     /\ last.pre.config.counter_steer_assist
     /\ last.pre.config.anti_spin_assist
     /\ last.pre.config.counter_steer_strength = DefaultCounterSteerStrength
     /\ last.pre.config.spin_prevention = DefaultSpinPrevention)
    => /\ ~(/\ Abs(procs[1].steering_value) > CounterSteerSteeringMin
            /\ procs[1].throttle_value > CounterSteerThrottleMin)
       /\ ~(/\ Abs(procs[1].steering_value) > AntiSpinSteeringMin
            /\ procs[1].throttle_value > AntiSpinThrottleMin)
       /\ procs[1].brake_value = last.pre.brake_value

\* The assist step met steering -0.7 with throttle 0.85 and cut the throttle.
C32_Witness ==
    /\ last.op = "apply_assists"
    /\ last.pre.config.counter_steer_assist
    /\ last.pre.config.anti_spin_assist
    /\ last.pre.config.counter_steer_strength = DefaultCounterSteerStrength
    /\ last.pre.config.spin_prevention = DefaultSpinPrevention
    /\ last.pre.steering_value = -7000
    /\ last.pre.throttle_value = 8500
    /\ procs[1].steering_value = -7000
    /\ procs[1].throttle_value = 3400

\* C33: the axes of a processor change only in the update of an iteration
\* that read KEYBOARD; an iteration that reads another device changes no
\* axis and starts no tick, whatever keys are pressed.
C33_ShapingGatedByDevice ==
    [][/\ (\E i \in 1..Len(procs) : get_inputs(procs'[i]) # get_inputs(procs[i]))
            => (loop.pc = "update" /\ loop'.pc = "read")
       /\ (/\ loop.pc = "idle"
           /\ current_device # KEYBOARD
           /\ last_update' # last_update)
            => /\ loop' = loop
               /\ nticks' = nticks
               /\ \A i \in 1..Len(procs) :
                     get_inputs(procs'[i]) = get_inputs(procs[i])]_vars

\* An iteration that read UNKNOWN has run after the one tick that steered:
\* steering is still where that tick left it.
C33_Witness ==
    /\ loop.pc = "idle"
    /\ nticks = 1
    /\ procs[1].steering_value # 0
    /\ current_device = UNKNOWN
    /\ sample.pre_device = KEYBOARD
    /\ last.op = "key_released"
    /\ last.t < now
    /\ last_update = now

\* C34: the wheel-activity check reports false, so last_wheel_time is never
\* updated and, with the clock at or beyond the detection threshold,
\* current_device is UNKNOWN or KEYBOARD in every state; no listener is
\* called with STEERING_WHEEL and is_wheel_mode() is never true.
C34_WheelUnreachable ==
    /\ last_wheel_time = 0
    /\ current_device \in {UNKNOWN, KEYBOARD}
    /\ sample.new_device # STEERING_WHEEL
    /\ \A i \in 1..Len(sample.calls) : sample.calls[i].device # STEERING_WHEEL
    /\ ~(current_device = STEERING_WHEEL)

\* A sample without keyboard activity changed the device, told a listener,
\* and the device it chose was UNKNOWN.
C34_Witness ==
    /\ sample.taken
    /\ now >= DetectionThreshold
    /\ ~sample.keyboard_seen
    /\ sample.pre_device = KEYBOARD
    /\ Len(sample.calls) > 0
    /\ sample.calls[1].device = UNKNOWN
    /\ current_device = UNKNOWN

\* C35: a call of run_on_main from a non-main thread that has returned gave
\* back the result of its own task, or raised TimeoutError; it never gave
\* back None or the result of another task (here already while
\* clear_tasks() has not been called).
C35_RunOnMainOwnResult ==
    ~sync_log.cleared =>
        \A t \in Callers :
            LET returned == sync_th[t].returned
            IN  /\ returned.kind # "none"
                /\ returned.kind = "result" => returned.of = sync_th[t].task

\* C36: process_tasks executes the queued tasks once each in the order of
\* their enqueueing, stores the exception of a task that raises as its
\* result and goes on with the tasks after it, and returns with the queue
\* empty and every enqueued task executed.
C36_ProcessTasksDrainsInOrder ==
    [][~sync_log'.cleared =>
        /\ Len(sync_log'.executed) <= Len(sync_log'.enqueued)
        /\ sync_log'.executed
             = SubSeq(sync_log'.enqueued, 1, Len(sync_log'.executed))
        /\ (sync_main.pc = "run" /\ sync_main'.pc = "set")
             => /\ sync_main'.task.id \in DOMAIN thread_sync'.results
                /\ thread_sync'.results[sync_main'.task.id]
                     = [of |-> sync_main'.task, exc |-> sync_main'.task.raises]
        /\ (sync_main.pc = "loop" /\ sync_main'.pc = "idle")
             => /\ thread_sync'.task_queue = <<>>
                /\ sync_log'.executed = sync_log'.enqueued]_vars

\* One call of process_tasks ran a task that raised and then the task
\* queued after it, and has returned.
C36_Witness ==
    /\ ~sync_log.cleared
    /\ sync_main.pc = "idle"
    /\ Len(sync_log.executed) = 2
    /\ sync_log.executed[1].raises
    /\ ~sync_log.executed[2].raises
    /\ thread_sync.task_queue = <<>>

\* C37: however often and from however many threads start() is called, at
\* most one visualization chain and at most one process-check chain exist;
\* and after stop() no callback does its work or schedules itself again.
C37_StartIdempotent ==
    /\ chain_count("visualization") <= 1
    /\ chain_count("process_check") <= 1
    /\ ~tk.ran_after_stop

\* C38: every conversion of steering in [-1, 1] and pedals in [0, 1] gives
\* three axis values in 0..32767, with steering 0, -1 and 1 giving 16384, 0
\* and 32767; and of two conversions, the one with the larger input on an
\* axis never has the smaller value on that axis.
C38_AxisConversionRange ==
    conv.current.made =>
        LET inp == conv.current.inputs
            out == conv.current.axis_values
            Axes == {"steering", "throttle", "brake"}
        IN /\ \A k \in Axes : out[k] \in 0..32767
           /\ inp.steering = 0 => out.steering = 16384
           /\ inp.steering = -One => out.steering = 0
           /\ inp.steering = One => out.steering = 32767
           /\ conv.previous.made =>
                 \A k \in Axes :
                    conv.previous.inputs[k] <= inp[k] =>
                       conv.previous.axis_values[k] <= out[k]

\* Full right lock is converted after a smaller steering input.
C38_Witness ==
    /\ conv.previous.made
    /\ conv.current.made
    /\ conv.previous.inputs.steering < One
    /\ conv.current.inputs.steering = One
    /\ conv.current.axis_values.steering = 32767
    /\ conv.current.inputs.throttle = One
    /\ conv.current.axis_values.throttle = 32767

====
